---- MODULE Spec2Model ----
(***************************************************************************)
(* A model of the OpenPGP transferable-key object of src/key.js: the       *)
(* structure builder and its inverse, the validation engine, the operation *)
(* selectors and the merge engine.  Objects live in a heap (keys, users,   *)
(* subKeys, sigs) because update() shares arrays and objects between keys. *)
(***************************************************************************)
EXTENDS Integers, Sequences, FiniteSets, TLC

VARIABLES
  keys,        \* slot -> Key object (primaryKey, refs of its arrays, users, subKeys)
  users,       \* user reference -> User object
  subKeys,     \* subkey reference -> SubKey object
  sigs,        \* array reference -> the signature array's content
  verified,    \* signature object id -> its cached `verified` flag
  revoked,     \* signature object id -> its cached `revoked` flag
  now,         \* the clock read by `new Date()`
  packetlist,  \* the packet sequence handed to the Key constructor
  last,        \* the last operation, its arguments and what it returned
  config       \* the configuration object of config.js

vars == <<keys, users, subKeys, sigs, verified, revoked, now, packetlist, last, config>>

(***************************************************************************)
(* Bounds of the model.                                                    *)
(***************************************************************************)
MaxAnyLen == 3     \* arbitrary (also ill-formed) packet sequences up to this length
MaxLen == 6        \* well-formed packet sequences up to this length
MaxDate == 3       \* dates range over 0..MaxDate
MaxWeight == 2     \* isPrimaryUserID weights range over 0..MaxWeight

(***************************************************************************)
(* Enums and external packet interfaces.                                   *)
(***************************************************************************)
Infinity == 1000
NoDate == -1                       \* the date `null` (expiration checks disabled)
NoPacket == [tag |-> "none"]       \* null / undefined where a packet is expected
NoRef == <<0, 0>>                  \* null / undefined where a User or SubKey is expected
NoKeyId == "undefined"

\* enums.keyStatus: the numeric status codes
keyStatus == [invalid |-> 0, expired |-> 1, revoked |-> 2, valid |-> 3, no_self_cert |-> 4]

\* a status used as a condition: `if (await this.verifyPrimaryKey(date))`
Truthy(status) == status # 0

\* enums.keyFlags: the bits of the key-flags byte
enumsKeyFlags == [certify_keys |-> 1, sign_data |-> 2,
                  encrypt_communication |-> 4, encrypt_storage |-> 8]

\* the bitwise test (flags & bit) !== 0, for a bit that is a power of two
HasFlag(flags, bit) == (flags \div bit) % 2 = 1

KeyPacket(tag, fp, alg, ver, created, expV3) ==
  [tag |-> tag, fingerprint |-> fp, algorithm |-> alg, version |-> ver,
   created |-> created, expirationTimeV3 |-> expV3]

UserIdPacket(s) == [tag |-> "userid", userid |-> s]

UserAttributePacket(a) == [tag |-> "userAttribute", attributes |-> a]

\* a preference list that the signature does not carry (null)
NoPreferences == <<-1>>

SignatureDefaults ==
  [tag |-> "signature", created |-> 0, expirationTime |-> Infinity,
   keyFlags |-> <<>>, isPrimaryUserID |-> 0,
   keyNeverExpires |-> "null", keyExpirationTime |-> 0, good |-> TRUE,
   preferredSymmetricAlgorithms |-> NoPreferences]

\* A signature packet object `id` with raw signature bytes `bytes`.
SignaturePacket(id, bytes, type, issuer) ==
  [id |-> id, signature |-> bytes, signatureType |-> type, issuerKeyId |-> issuer]
    @@ SignatureDefaults

IsKeyTag(t) == t \in {"publicKey", "secretKey"}
IsSubkeyTag(t) == t \in {"publicSubkey", "secretSubkey"}
IsUserTag(t) == t \in {"userid", "userAttribute"}
IsCert(type) == type \in {"cert_generic", "cert_persona", "cert_casual", "cert_positive"}

\* keyPacket.getKeyId(): the key id is a truncation of the fingerprint
getKeyId(keyPacket) == keyPacket.fingerprint

\* Keyid.prototype.equals without the wildcard mode
KeyIdEquals(a, b) == a = b

(***************************************************************************)
(* The heap.                                                               *)
(***************************************************************************)
Mem == [keys |-> keys, users |-> users, subKeys |-> subKeys, sigs |-> sigs,
        verified |-> verified, revoked |-> revoked]

SetMem(m) ==
  /\ keys' = m.keys
  /\ users' = m.users
  /\ subKeys' = m.subKeys
  /\ sigs' = m.sigs
  /\ verified' = m.verified
  /\ revoked' = m.revoked

EmptyFn == [x \in {} |-> 0]

EmptyMem == [keys |-> EmptyFn, users |-> EmptyFn, subKeys |-> EmptyFn,
             sigs |-> EmptyFn, verified |-> EmptyFn, revoked |-> EmptyFn]

ArrRef(kind, slot, idx, attr) == <<kind, slot, idx, attr>>

\* array.push(x) on the array `ref`
Push(m, ref, x) == [m EXCEPT !.sigs[ref] = Append(@, x)]

\* function Key(packetlist), lines 47-51: the fields before packetlist2structure
NewKey(slot) ==
  [primaryKey |-> NoPacket,
   revocationSignatures |-> ArrRef("k", slot, 0, "revocationSignatures"),
   directSignatures |-> ArrRef("k", slot, 0, "directSignatures"),
   users |-> <<>>, subKeys |-> <<>>]

\* function User(userPacket)
NewUser(userPacket, slot, idx) ==
  [userId |-> IF userPacket.tag = "userid" THEN userPacket ELSE NoPacket,
   userAttribute |-> IF userPacket.tag = "userAttribute" THEN userPacket ELSE NoPacket,
   selfCertifications |-> ArrRef("u", slot, idx, "selfCertifications"),
   otherCertifications |-> ArrRef("u", slot, idx, "otherCertifications"),
   revocationSignatures |-> ArrRef("u", slot, idx, "revocationSignatures")]

\* function SubKey(subKeyPacket)
NewSubKey(subKeyPacket, slot, idx) ==
  [subKey |-> subKeyPacket,
   bindingSignatures |-> ArrRef("s", slot, idx, "bindingSignatures"),
   revocationSignatures |-> ArrRef("s", slot, idx, "revocationSignatures")]

(***************************************************************************)
(* Structure builder: Key.prototype.packetlist2structure.                  *)
(* The loop state is the heap, the cursors user / subKey / primaryKeyId    *)
(* and the error raised so far.                                            *)
(***************************************************************************)
p2sInit(m, slot) ==
  [m |-> [m EXCEPT !.keys = (slot :> NewKey(slot)) @@ @,
                   !.sigs = (ArrRef("k", slot, 0, "revocationSignatures") :> <<>>)
                            @@ (ArrRef("k", slot, 0, "directSignatures") :> <<>>) @@ @],
   user |-> NoRef, subKey |-> NoRef, primaryKeyId |-> NoKeyId, error |-> "none"]

p2sUser(st, slot, pkt) ==
  LET idx == Len(st.m.keys[slot].users) + 1
      ref == <<slot, idx>>
      u == NewUser(pkt, slot, idx)
  IN [st EXCEPT !.user = ref,
                !.m.users = (ref :> u) @@ @,
                !.m.sigs = (u.selfCertifications :> <<>>) @@ (u.otherCertifications :> <<>>)
                           @@ (u.revocationSignatures :> <<>>) @@ @,
                !.m.keys[slot].users = Append(@, ref)]

p2sSubKey(st, slot, pkt) ==
  LET idx == Len(st.m.keys[slot].subKeys) + 1
      ref == <<slot, idx>>
      sk == NewSubKey(pkt, slot, idx)
  IN [st EXCEPT !.user = NoRef,
                !.subKey = ref,
                !.m.subKeys = (ref :> sk) @@ @,
                !.m.sigs = (sk.bindingSignatures :> <<>>) @@ (sk.revocationSignatures :> <<>>) @@ @,
                !.m.keys[slot].subKeys = Append(@, ref)]

p2sSignature(st, slot, pkt) ==
  LET key == st.m.keys[slot]
      type == pkt.signatureType
  IN CASE IsCert(type) ->
            IF st.user = NoRef THEN st
            ELSE IF st.primaryKeyId = NoKeyId
              THEN [st EXCEPT !.error = "TypeError"]   \* issuerKeyId.equals(undefined)
            ELSE IF KeyIdEquals(pkt.issuerKeyId, st.primaryKeyId)
              THEN [st EXCEPT !.m = Push(@, st.m.users[st.user].selfCertifications, pkt)]
              ELSE [st EXCEPT !.m = Push(@, st.m.users[st.user].otherCertifications, pkt)]
       [] type = "cert_revocation" ->
            IF st.user # NoRef
              THEN [st EXCEPT !.m = Push(@, st.m.users[st.user].revocationSignatures, pkt)]
              ELSE [st EXCEPT !.m = Push(@, key.directSignatures, pkt)]
       [] type = "key" ->
            [st EXCEPT !.m = Push(@, key.directSignatures, pkt)]
       [] type = "subkey_binding" ->
            IF st.subKey = NoRef THEN st
            ELSE [st EXCEPT !.m = Push(@, st.m.subKeys[st.subKey].bindingSignatures, pkt)]
       [] type = "key_revocation" ->
            [st EXCEPT !.m = Push(@, key.revocationSignatures, pkt)]
       [] type = "subkey_revocation" ->
            IF st.subKey = NoRef THEN st
            ELSE [st EXCEPT !.m = Push(@, st.m.subKeys[st.subKey].revocationSignatures, pkt)]
       [] OTHER -> st

p2sStep(st, slot, pkt) ==
  CASE IsKeyTag(pkt.tag) ->
         [st EXCEPT !.m.keys[slot].primaryKey = pkt, !.primaryKeyId = getKeyId(pkt)]
    [] IsUserTag(pkt.tag) -> p2sUser(st, slot, pkt)
    [] IsSubkeyTag(pkt.tag) -> p2sSubKey(st, slot, pkt)
    [] pkt.tag = "signature" -> p2sSignature(st, slot, pkt)
    [] OTHER -> st

RECURSIVE p2sLoop(_, _, _, _)
p2sLoop(st, slot, pl, i) ==
  IF i > Len(pl) \/ st.error # "none" THEN st
  ELSE p2sLoop(p2sStep(st, slot, pl[i]), slot, pl, i + 1)

packetlist2structure(m, slot, pl) == p2sLoop(p2sInit(m, slot), slot, pl, 1)

\* new Key(packetlist): [m, error]; the heap is unchanged when the constructor throws
MutKey(m, slot, pl) ==
  LET st == packetlist2structure(m, slot, pl)
      k == st.m.keys[slot]
  IN IF st.error # "none" THEN [m |-> m, error |-> st.error]
     ELSE IF k.primaryKey = NoPacket
       THEN [m |-> m, error |-> "InvalidKey"]
     ELSE [m |-> st.m, error |-> "none"]

Key(m, slot, pl) ==
  LET st == packetlist2structure(m, slot, pl)
      k == st.m.keys[slot]
  IN IF st.error # "none" THEN [m |-> m, error |-> st.error]
     ELSE IF k.primaryKey = NoPacket \/ Len(k.users) = 0
       THEN [m |-> m, error |-> "InvalidKey"]
     ELSE [m |-> st.m, error |-> "none"]

(***************************************************************************)
(* Serialisation: toPacketlist of User, SubKey and Key.                    *)
(***************************************************************************)
RECURSIVE Concat(_)
Concat(ss) == IF Len(ss) = 0 THEN <<>> ELSE Head(ss) \o Concat(Tail(ss))

UserToPacketlist(m, ref) ==
  LET u == m.users[ref]
  IN <<IF u.userId # NoPacket THEN u.userId ELSE u.userAttribute>>
       \o m.sigs[u.revocationSignatures]
       \o m.sigs[u.selfCertifications]
       \o m.sigs[u.otherCertifications]

SubKeyToPacketlist(m, ref) ==
  LET sk == m.subKeys[ref]
  IN <<sk.subKey>> \o m.sigs[sk.revocationSignatures] \o m.sigs[sk.bindingSignatures]

MutToPacketlist(m, slot) ==
  LET k == m.keys[slot]
  IN <<k.primaryKey>>
       \o m.sigs[k.directSignatures]
       \o m.sigs[k.revocationSignatures]
       \o Concat([i \in 1..Len(k.users) |-> UserToPacketlist(m, k.users[i])])
       \o Concat([i \in 1..Len(k.subKeys) |-> SubKeyToPacketlist(m, k.subKeys[i])])

toPacketlist(m, slot) ==
  LET k == m.keys[slot]
  IN <<k.primaryKey>>
       \o m.sigs[k.revocationSignatures]
       \o m.sigs[k.directSignatures]
       \o Concat([i \in 1..Len(k.users) |-> UserToPacketlist(m, k.users[i])])
       \o Concat([i \in 1..Len(k.subKeys) |-> SubKeyToPacketlist(m, k.subKeys[i])])

(***************************************************************************)
(* Signature evaluator (external interface) and configuration.             *)
(***************************************************************************)
\* the configuration as config.js exports it
DefaultConfig == [revocations_expire |-> FALSE]

\* config.revocations_expire
revocations_expire == config.revocations_expire

SecondsPerDay == 86400

\* signature.isExpired(date): outside [created, expirationTime), unless date is null
isExpired(sig, date) ==
  date # NoDate /\ ~(sig.created <= date /\ date < sig.expirationTime)

\* the descriptor { key, userid, bind } a signature is verified over
DataToVerify(key, userid, bind) == [key |-> key, userid |-> userid, bind |-> bind]

\* signature.verify(key, data): the signature is sound, `key` is the key that
\* issued it and the descriptor names the signed key; the outcome is cached
verify(m, sig, key, data) ==
  LET r == sig.good /\ data.key # NoPacket /\ KeyIdEquals(sig.issuerKeyId, getKeyId(key))
  IN [m |-> [m EXCEPT !.verified[sig.id] = r], r |-> r]

\* sig.verified || await sig.verify(key, data)
verifiedOrVerify(m, sig, key, data) ==
  IF m.verified[sig.id] THEN [m |-> m, r |-> TRUE] ELSE verify(m, sig, key, data)

(***************************************************************************)
(* Revocation and expiration predicates.                                   *)
(***************************************************************************)
\* the loop of isDataRevoked: [m, r] with r the issuer key ids of the
\* revocations that count; v is the outcome for revocations[i]
RECURSIVE revocationKeyIds(_, _, _, _, _, _)
rkiJoin(rs, v, rest) ==
  [m |-> rest.m, r |-> (IF v.r THEN {rs.issuerKeyId} ELSE {}) \cup rest.r]

rkiNext(v, dataToVerify, revocations, key, date, i) ==
  rkiJoin(revocations[i], v,
          revocationKeyIds(v.m, dataToVerify, revocations, key, date, i + 1))

revocationKeyIds(m, dataToVerify, revocations, key, date, i) ==
  IF i > Len(revocations) THEN [m |-> m, r |-> {}]
  ELSE rkiNext(IF revocations_expire /\ isExpired(revocations[i], date)
                 THEN [m |-> m, r |-> FALSE]
                 ELSE verifiedOrVerify(m, revocations[i], key, dataToVerify),
               dataToVerify, revocations, key, date, i)

\* the end of isDataRevoked, ids the outcome of the loop
idrResult(ids, signature) ==
  IF signature # NoPacket
    THEN LET rv == IF \E id \in ids.r : KeyIdEquals(id, signature.issuerKeyId)
                     THEN TRUE ELSE ids.m.revoked[signature.id]
         IN [m |-> [ids.m EXCEPT !.revoked[signature.id] = rv], r |-> rv]
    ELSE [m |-> ids.m, r |-> ids.r # {}]

isDataRevoked(m, primaryKey, dataToVerify, revocations, signature, keyArg, date) ==
  idrResult(revocationKeyIds(m, dataToVerify, revocations,
                             IF keyArg = NoPacket THEN primaryKey ELSE keyArg, date, 1),
            signature)

getExpirationTime(keyPacket, signature) ==
  LET v3 == keyPacket.version = 3 /\ keyPacket.expirationTimeV3 # 0
      v4 == keyPacket.version = 4 /\ signature.keyNeverExpires = "false"
      expirationTime ==
        IF v4 THEN signature.created + signature.keyExpirationTime
        ELSE IF v3 THEN keyPacket.created + keyPacket.expirationTimeV3 * SecondsPerDay
        ELSE 0
  IN IF expirationTime # 0 THEN expirationTime ELSE Infinity

isDataExpired(keyPacket, signature, date) ==
  IF date # NoDate
    THEN \/ ~(keyPacket.created <= date /\ date < getExpirationTime(keyPacket, signature))
         \/ (signature # NoPacket /\ isExpired(signature, date))
    ELSE FALSE

\* Key.prototype.isRevoked(null, null, date)
KeyIsRevoked(m, slot, signature, key, date) ==
  LET k == m.keys[slot]
  IN isDataRevoked(m, k.primaryKey, DataToVerify(k.primaryKey, NoPacket, NoPacket),
                   m.sigs[k.revocationSignatures], signature, key, date)

UserPacketOf(u) == IF u.userId # NoPacket THEN u.userId ELSE u.userAttribute

\* User.prototype.isRevoked
UserIsRevoked(m, ref, primaryKey, certificate, key, date) ==
  LET u == m.users[ref]
  IN isDataRevoked(m, primaryKey, DataToVerify(primaryKey, UserPacketOf(u), NoPacket),
                   m.sigs[u.revocationSignatures], certificate, key, date)

\* SubKey.prototype.isRevoked
SubKeyIsRevoked(m, ref, primaryKey, signature, key, date) ==
  LET sk == m.subKeys[ref]
  IN isDataRevoked(m, primaryKey, DataToVerify(primaryKey, NoPacket, sk.subKey),
                   m.sigs[sk.revocationSignatures], signature, key, date)

(***************************************************************************)
(* Primary-user selector: Key.prototype.getPrimaryUser.                    *)
(***************************************************************************)
NoUser == [index |-> 0]

\* one self-certification of user i: the loop body, on the loop state
\* [m, lastCreated, lastPrimaryUserID, primaryUsers]; rv is the outcome of the
\* revocation test and v that of the verification
gpuChecked(st, rv, i, ref, cert, date) ==
  IF rv.r THEN [st EXCEPT !.m = rv.m]
  ELSE IF isExpired(cert, date) THEN [st EXCEPT !.m = rv.m]
  ELSE [m |-> rv.m,
        lastCreated |-> cert.created,
        lastPrimaryUserID |-> cert.isPrimaryUserID,
        primaryUsers |-> Append(st.primaryUsers,
                                [index |-> i, user |-> ref, selfCertification |-> cert]),
        returned |-> FALSE]

gpuVerified(st, v, slot, i, cert, date) ==
  IF ~v.r THEN [st EXCEPT !.m = v.m]
  ELSE gpuChecked(st,
                  IF v.m.revoked[cert.id] THEN [m |-> v.m, r |-> TRUE]
                  ELSE UserIsRevoked(v.m, v.m.keys[slot].users[i], v.m.keys[slot].primaryKey,
                                     cert, NoPacket, date),
                  i, v.m.keys[slot].users[i], cert, date)

gpuCert(st, slot, i, cert, date) ==
  LET primaryKey == st.m.keys[slot].primaryKey
      user == st.m.users[st.m.keys[slot].users[i]]
      older == \/ (cert.isPrimaryUserID # 0 /\ cert.isPrimaryUserID < st.lastPrimaryUserID)
               \/ (st.lastPrimaryUserID = 0 /\ cert.created < st.lastCreated)
  IN IF older THEN st
     ELSE gpuVerified(st,
                      verifiedOrVerify(st.m, cert, primaryKey,
                                       DataToVerify(primaryKey, user.userId, NoPacket)),
                      slot, i, cert, date)

RECURSIVE gpuCerts(_, _, _, _, _, _)
gpuCerts(st, slot, i, certs, date, j) ==
  IF j > Len(certs) THEN st
  ELSE gpuCerts(gpuCert(st, slot, i, certs[j], date), slot, i, certs, date, j + 1)

\* the loop over the users; a user without a UserID packet ends the function
RECURSIVE gpuUsers(_, _, _, _)
gpuUsers(st, slot, date, i) ==
  LET k == st.m.keys[slot]
  IN IF i > Len(k.users) THEN st
     ELSE LET user == st.m.users[k.users[i]]
          IN IF user.userId = NoPacket THEN [st EXCEPT !.returned = TRUE]
             ELSE gpuUsers(gpuCerts(st, slot, i, st.m.sigs[user.selfCertifications], date, 1),
                           slot, date, i + 1)

\* the comparator of the sort: (B.isPrimaryUserID - A.isPrimaryUserID) || (B.created - A.created)
SortCompare(a, b) ==
  LET A == a.selfCertification
      B == b.selfCertification
  IN IF B.isPrimaryUserID - A.isPrimaryUserID # 0
       THEN B.isPrimaryUserID - A.isPrimaryUserID
       ELSE B.created - A.created

\* primaryUsers.sort(compare).pop(): the last element of the stably sorted
\* array, that is the last of those no other element must follow
SortPop(ps) ==
  IF Len(ps) = 0 THEN NoUser
  ELSE LET isLast(i) == \A j \in 1..Len(ps) :
                          j # i => \/ SortCompare(ps[j], ps[i]) < 0
                                   \/ (SortCompare(ps[j], ps[i]) = 0 /\ j < i)
       IN ps[CHOOSE i \in 1..Len(ps) : isLast(i)]

gpuResult(st) ==
  [m |-> st.m, r |-> IF st.returned THEN NoUser ELSE SortPop(st.primaryUsers)]

getPrimaryUser(m, slot, date) ==
  gpuResult(gpuUsers([m |-> m, lastCreated |-> 0, lastPrimaryUserID |-> 0,
                      primaryUsers |-> <<>>, returned |-> FALSE], slot, date, 1))

(***************************************************************************)
(* Primary-key and subkey validation.                                      *)
(***************************************************************************)
\* this.users.some(user => user.userId && user.selfCertifications.length)
SomeSelfCertifiedUserId(m, slot) ==
  \E i \in 1..Len(m.keys[slot].users) :
    LET user == m.users[m.keys[slot].users[i]]
    IN user.userId # NoPacket /\ Len(m.sigs[user.selfCertifications]) > 0

\* the tests after the primary user was selected
vpkPrimaryUser(pu, slot, date) ==
  LET primaryKey == pu.m.keys[slot].primaryKey
  IN IF pu.r = NoUser THEN [m |-> pu.m, r |-> keyStatus.invalid]
     ELSE IF \/ (primaryKey.version = 3 /\ isDataExpired(primaryKey, NoPacket, date))
             \/ (primaryKey.version = 4
                 /\ isDataExpired(primaryKey, pu.r.selfCertification, date))
       THEN [m |-> pu.m, r |-> keyStatus.expired]
     ELSE [m |-> pu.m, r |-> keyStatus.valid]

\* the test for a self-certification and what follows it
vpkSelfCert(m, slot, date) ==
  IF ~SomeSelfCertifiedUserId(m, slot) THEN [m |-> m, r |-> keyStatus.no_self_cert]
  ELSE vpkPrimaryUser(getPrimaryUser(m, slot, date), slot, date)

\* the tests after the revocation test, rv its outcome
vpkRevoked(rv, slot, date) ==
  IF rv.r THEN [m |-> rv.m, r |-> keyStatus.revoked]
  ELSE vpkSelfCert(rv.m, slot, date)

MutVerifyPrimaryKey(m, slot, date) ==
  IF ~SomeSelfCertifiedUserId(m, slot) THEN [m |-> m, r |-> keyStatus.no_self_cert]
  ELSE vpkRevoked(KeyIsRevoked(m, slot, NoPacket, NoPacket, date), slot, date)

verifyPrimaryKey(m, slot, date) ==
  vpkRevoked(KeyIsRevoked(m, slot, NoPacket, NoPacket, date), slot, date)

\* the status of one binding signature in SubKey.prototype.verify; v is the
\* outcome of its verification and rv that of the revocation test
svChecked(rv, bindingSignature, date) ==
  IF rv.r THEN [m |-> rv.m, r |-> keyStatus.revoked]
  ELSE IF isExpired(bindingSignature, date) THEN [m |-> rv.m, r |-> keyStatus.expired]
  ELSE [m |-> rv.m, r |-> keyStatus.valid]

svVerified(v, ref, primaryKey, bindingSignature, date) ==
  IF ~v.r THEN [m |-> v.m, r |-> keyStatus.invalid]
  ELSE svChecked(IF v.m.revoked[bindingSignature.id] THEN [m |-> v.m, r |-> TRUE]
                 ELSE SubKeyIsRevoked(v.m, ref, primaryKey, bindingSignature, NoPacket, date),
                 bindingSignature, date)

svBinding(m, ref, primaryKey, bindingSignature, date) ==
  svVerified(verifiedOrVerify(m, bindingSignature, primaryKey,
                              DataToVerify(primaryKey, NoPacket, m.subKeys[ref].subKey)),
             ref, primaryKey, bindingSignature, date)

\* [m, r] with r the sequence of the binding signatures' statuses
RECURSIVE svBindings(_, _, _, _, _, _)
svJoin(one, rest) == [m |-> rest.m, r |-> <<one.r>> \o rest.r]

svNext(one, ref, primaryKey, bindings, date, i) ==
  svJoin(one, svBindings(one.m, ref, primaryKey, bindings, date, i + 1))

svBindings(m, ref, primaryKey, bindings, date, i) ==
  IF i > Len(bindings) THEN [m |-> m, r |-> <<>>]
  ELSE svNext(svBinding(m, ref, primaryKey, bindings[i], date),
              ref, primaryKey, bindings, date, i)

\* valid if some binding signature is, else the status of the last one
svResult(bs) ==
  LET results == <<keyStatus.invalid>> \o bs.r
  IN [m |-> bs.m,
      r |-> IF \E i \in 1..Len(results) : results[i] = keyStatus.valid
              THEN keyStatus.valid ELSE results[Len(results)]]

\* SubKey.prototype.verify
SubKeyVerify(m, ref, primaryKey, date) ==
  LET sk == m.subKeys[ref]
  IN IF sk.subKey.version = 3 /\ isDataExpired(sk.subKey, NoPacket, date)
       THEN [m |-> m, r |-> keyStatus.expired]
     ELSE svResult(svBindings(m, ref, primaryKey, m.sigs[sk.bindingSignatures], date, 1))

(***************************************************************************)
(* Operation selector.                                                     *)
(***************************************************************************)
MutIsValidSigningKeyPacket(m, keyPacket, signature, date) ==
  /\ keyPacket.algorithm # "rsa_encrypt"
  /\ keyPacket.algorithm # "elgamal"
  /\ (signature.keyFlags = <<>> \/ HasFlag(signature.keyFlags[1], enumsKeyFlags.sign_data))
  /\ m.verified[signature.id] /\ ~m.revoked[signature.id] /\ ~isExpired(signature, date)
  /\ ~isDataExpired(keyPacket, signature, date)

isValidSigningKeyPacket(m, keyPacket, signature, date) ==
  /\ keyPacket.algorithm # "rsa_encrypt"
  /\ keyPacket.algorithm # "elgamal"
  /\ keyPacket.algorithm # "ecdh"
  /\ (signature.keyFlags = <<>> \/ HasFlag(signature.keyFlags[1], enumsKeyFlags.sign_data))
  /\ m.verified[signature.id] /\ ~m.revoked[signature.id] /\ ~isExpired(signature, date)
  /\ ~isDataExpired(keyPacket, signature, date)

MutIsValidEncryptionKeyPacket(m, keyPacket, signature, date) ==
  /\ keyPacket.algorithm # "dsa"
  /\ keyPacket.algorithm # "rsa_sign"
  /\ keyPacket.algorithm # "ecdsa"
  /\ keyPacket.algorithm # "eddsa"
  /\ m.verified[signature.id] /\ ~m.revoked[signature.id] /\ ~isExpired(signature, date)
  /\ ~isDataExpired(keyPacket, signature, date)

isValidEncryptionKeyPacket(m, keyPacket, signature, date) ==
  /\ keyPacket.algorithm # "dsa"
  /\ keyPacket.algorithm # "rsa_sign"
  /\ keyPacket.algorithm # "ecdsa"
  /\ keyPacket.algorithm # "eddsa"
  /\ \/ signature.keyFlags = <<>>
     \/ HasFlag(signature.keyFlags[1], enumsKeyFlags.encrypt_communication)
     \/ HasFlag(signature.keyFlags[1], enumsKeyFlags.encrypt_storage)
  /\ m.verified[signature.id] /\ ~m.revoked[signature.id] /\ ~isExpired(signature, date)
  /\ ~isDataExpired(keyPacket, signature, date)

\* !keyId || keyPacket.getKeyId().equals(keyId)
MatchesKeyId(keyPacket, keyId) == keyId = NoKeyId \/ KeyIdEquals(getKeyId(keyPacket), keyId)

NoStatus == -1

\* the primary-key test of both selectors: [m, r, status] with r whether the
\* primary key is returned and status what verifyPrimaryKey said, if it was
\* called; pu is the primary user and vp the outcome of verifyPrimaryKey
selStatus(vp) == [m |-> vp.m, r |-> Truthy(vp.r), status |-> vp.r]

selPrimaryUser(pu, slot, keyId, date, forSigning) ==
  LET primaryKey == pu.m.keys[slot].primaryKey
  IN IF /\ pu.r # NoUser
        /\ MatchesKeyId(primaryKey, keyId)
        /\ IF forSigning
             THEN isValidSigningKeyPacket(pu.m, primaryKey, pu.r.selfCertification, date)
             ELSE isValidEncryptionKeyPacket(pu.m, primaryKey, pu.r.selfCertification, date)
       THEN selStatus(verifyPrimaryKey(pu.m, slot, date))
     ELSE [m |-> pu.m, r |-> FALSE, status |-> NoStatus]

selPrimary(m, slot, keyId, date, forSigning) ==
  selPrimaryUser(getPrimaryUser(m, slot, date), slot, keyId, date, forSigning)

\* the subkey loop of both selectors: [m, r] with r the subkey packet returned;
\* sv is the outcome of SubKey.verify on subkey i
RECURSIVE selSubKeys(_, _, _, _, _, _)
selSubKey(sv, slot, keyId, date, forSigning, i) ==
  LET sk == sv.m.subKeys[sv.m.keys[slot].subKeys[i]]
      bs == sv.m.sigs[sk.bindingSignatures]
  IN IF \E j \in 1..Len(bs) :
          IF forSigning
            THEN isValidSigningKeyPacket(sv.m, sk.subKey, bs[j], date)
            ELSE isValidEncryptionKeyPacket(sv.m, sk.subKey, bs[j], date)
       THEN [m |-> sv.m, r |-> sk.subKey]
     ELSE selSubKeys(sv.m, slot, keyId, date, forSigning, i + 1)

selSubKeys(m, slot, keyId, date, forSigning, i) ==
  LET k == m.keys[slot]
  IN IF i > Len(k.subKeys) THEN [m |-> m, r |-> NoPacket]
     ELSE IF ~MatchesKeyId(m.subKeys[k.subKeys[i]].subKey, keyId)
       THEN selSubKeys(m, slot, keyId, date, forSigning, i + 1)
     ELSE selSubKey(SubKeyVerify(m, k.subKeys[i], k.primaryKey, date),
                    slot, keyId, date, forSigning, i)

\* Key.prototype.getSigningKeyPacket: the primary key first, then the subkeys
gskSubKeys(s, status) == [m |-> s.m, r |-> s.r, status |-> status]

gskPrimary(p, slot, keyId, date) ==
  IF p.r THEN [m |-> p.m, r |-> p.m.keys[slot].primaryKey, status |-> p.status]
  ELSE gskSubKeys(selSubKeys(p.m, slot, keyId, date, TRUE, 1), p.status)

getSigningKeyPacket(m, slot, keyId, date) ==
  gskPrimary(selPrimary(m, slot, keyId, date, TRUE), slot, keyId, date)

\* Key.prototype.getEncryptionKeyPacket: the subkeys first, then the primary key
gekPrimary(p, slot) ==
  [m |-> p.m,
   r |-> IF p.r THEN p.m.keys[slot].primaryKey ELSE NoPacket,
   status |-> p.status]

gekSubKeys(s, slot, keyId, date) ==
  IF s.r # NoPacket THEN [m |-> s.m, r |-> s.r, status |-> NoStatus]
  ELSE gekPrimary(selPrimary(s.m, slot, keyId, date, FALSE), slot)

getEncryptionKeyPacket(m, slot, keyId, date) ==
  gekSubKeys(selSubKeys(m, slot, keyId, date, FALSE, 1), slot, keyId, date)

\* the subkeys of verifyKeyPackets: [m, r, statuses], the subkey packets pushed
\* and what SubKey.verify said of every subkey (NoStatus when it was not asked)
RECURSIVE vkpSubKeys(_, _, _, _, _)
vkpJoin(status, pushed, rest) ==
  [m |-> rest.m, r |-> pushed \o rest.r, statuses |-> <<status>> \o rest.statuses]

vkpSubKey(sv, slot, keyId, date, i) ==
  vkpJoin(sv.r,
          IF sv.r # NoStatus /\ Truthy(sv.r)
            THEN <<sv.m.subKeys[sv.m.keys[slot].subKeys[i]].subKey>> ELSE <<>>,
          vkpSubKeys(sv.m, slot, keyId, date, i + 1))

vkpSubKeys(m, slot, keyId, date, i) ==
  LET k == m.keys[slot]
  IN IF i > Len(k.subKeys) THEN [m |-> m, r |-> <<>>, statuses |-> <<>>]
     ELSE vkpSubKey(IF MatchesKeyId(m.subKeys[k.subKeys[i]].subKey, keyId)
                      THEN SubKeyVerify(m, k.subKeys[i], k.primaryKey, date)
                      ELSE [m |-> m, r |-> NoStatus],
                    slot, keyId, date, i)

\* Key.prototype.verifyKeyPackets
vkpResult(vp, slot, keyId, s) ==
  LET primaryKey == vp.m.keys[slot].primaryKey
  IN [m |-> s.m,
      r |-> (IF Truthy(vp.r) /\ MatchesKeyId(primaryKey, keyId) THEN <<primaryKey>> ELSE <<>>)
            \o s.r,
      status |-> vp.r,
      statuses |-> s.statuses]

vkpPrimary(vp, slot, keyId, date) ==
  vkpResult(vp, slot, keyId, vkpSubKeys(vp.m, slot, keyId, date, 1))

verifyKeyPackets(m, slot, keyId, date) ==
  vkpPrimary(verifyPrimaryKey(m, slot, date), slot, keyId, date)

(***************************************************************************)
(* Round trip of the structure builder and the serialiser.                 *)
(* Init draws a packet sequence; Build constructs the Key from it and       *)
(* Serialise calls toPacketlist on the Key.                                *)
(***************************************************************************)
PrimaryA == KeyPacket("publicKey", "A", "rsa_encrypt_sign", 4, 1, 0)
SubkeyS == KeyPacket("publicSubkey", "S", "rsa_encrypt_sign", 4, 1, 0)

RTSignatures ==
  { SignaturePacket(1, 1, "key_revocation", "A"),
    SignaturePacket(2, 2, "key", "A"),
    SignaturePacket(3, 3, "cert_generic", "A"),
    SignaturePacket(4, 4, "cert_generic", "X"),
    SignaturePacket(5, 5, "cert_revocation", "A"),
    SignaturePacket(6, 6, "subkey_binding", "A"),
    SignaturePacket(7, 7, "subkey_revocation", "A") }

RTUniverse ==
  {PrimaryA, SubkeyS, UserIdPacket("alice"), UserAttributePacket("photo")} \cup RTSignatures

\* The section of a packet sequence a packet may continue, and its rank in the
\* order toPacketlist emits the section's signatures in.
SectionStep(st, pkt) ==
  LET type == IF pkt.tag = "signature" THEN pkt.signatureType ELSE "none"
      rank == CASE type \in {"key_revocation", "cert_revocation", "subkey_revocation"} -> 1
                [] type \in {"key", "subkey_binding"} -> 2
                [] IsCert(type) -> IF KeyIdEquals(pkt.issuerKeyId, st.pid) THEN 2 ELSE 3
                [] OTHER -> 0
      sig(ok) == IF ok THEN [st EXCEPT !.sorted = @ /\ rank >= st.rank, !.rank = rank]
                 ELSE [st EXCEPT !.sec = "bad"]
  IN CASE st.sec = "bad" -> st
       [] st.sec = "start" ->
            IF IsKeyTag(pkt.tag)
              THEN [st EXCEPT !.sec = "key", !.pid = getKeyId(pkt)]
              ELSE [st EXCEPT !.sec = "bad"]
       [] IsUserTag(pkt.tag) ->
            IF st.sec \in {"key", "user"} THEN [st EXCEPT !.sec = "user", !.rank = 0]
            ELSE [st EXCEPT !.sec = "bad"]
       [] IsSubkeyTag(pkt.tag) ->
            IF st.sec \in {"user", "sub"} THEN [st EXCEPT !.sec = "sub", !.rank = 0]
            ELSE [st EXCEPT !.sec = "bad"]
       [] type \in {"key", "key_revocation"} -> sig(st.sec = "key")
       [] IsCert(type) \/ type = "cert_revocation" -> sig(st.sec = "user")
       [] type \in {"subkey_binding", "subkey_revocation"} -> sig(st.sec = "sub")
       [] OTHER -> [st EXCEPT !.sec = "bad"]

RECURSIVE SectionScan(_, _, _)
SectionScan(st, pl, i) ==
  IF i > Len(pl) THEN st ELSE SectionScan(SectionStep(st, pl[i]), pl, i + 1)

Sections(pl) ==
  SectionScan([sec |-> "start", rank |-> 0, sorted |-> TRUE, pid |-> NoKeyId], pl, 1)

\* a primary key packet, its key-level signatures, then users each followed by
\* their certifications, then subkeys each followed by their signatures
WellFormed(pl) == Sections(pl).sec \in {"user", "sub"}

\* well-formed, and within each section the signatures come in the order
\* toPacketlist emits them
Canonical(pl) == WellFormed(pl) /\ Sections(pl).sorted

RECURSIVE SeqsOfLen(_, _)
SeqsOfLen(S, n) ==
  IF n = 0 THEN {<<>>}
  ELSE {Append(p, x) : p \in SeqsOfLen(S, n - 1), x \in S}

RECURSIVE PrefixesOfLen(_)
PrefixesOfLen(n) ==
  IF n = 0 THEN {<<>>}
  ELSE {q \in {Append(p, x) : p \in PrefixesOfLen(n - 1), x \in RTUniverse} :
          Sections(q).sec # "bad"}

RTInputs ==
  UNION {SeqsOfLen(RTUniverse, n) : n \in 0..MaxAnyLen}
    \cup UNION {PrefixesOfLen(n) : n \in 0..MaxLen}

AllFalse(ids) == [id \in ids |-> FALSE]

RTInit ==
  /\ config = DefaultConfig
  /\ packetlist \in RTInputs
  /\ keys = EmptyFn /\ users = EmptyFn /\ subKeys = EmptyFn /\ sigs = EmptyFn
  /\ verified = AllFalse({s.id : s \in RTSignatures})
  /\ revoked = AllFalse({s.id : s \in RTSignatures})
  /\ now = 0
  /\ last = [op |-> "init"]

RTBuild ==
  /\ last.op = "init"
  /\ LET r == Key(Mem, 1, packetlist)
     IN /\ SetMem(r.m)
        /\ last' = [op |-> "Key", error |-> r.error]
  /\ UNCHANGED <<now, packetlist, config>>

RTSerialise ==
  /\ last.op = "Key"
  /\ last.error = "none"
  /\ last' = [op |-> "toPacketlist", result |-> toPacketlist(Mem, 1)]
  /\ UNCHANGED <<keys, users, subKeys, sigs, verified, revoked, now, packetlist, config>>

RTNext == RTBuild \/ RTSerialise

SpecRoundTrip == RTInit /\ [][RTNext]_vars

\* C1 (as stated): for every well-formed packet sequence p, toPacketlist of the
\* Key built from p is exactly p.
C1_RoundTripWellFormed ==
  (last.op = "toPacketlist" /\ WellFormed(packetlist)) => last.result = packetlist

\* C1 (amended): for every well-formed packet sequence p whose signatures come,
\* within each section, in the order toPacketlist emits them, toPacketlist of
\* the Key built from p is exactly p.
C1_RoundTripCanonical ==
  (last.op = "toPacketlist" /\ Canonical(packetlist)) => last.result = packetlist

C1_Witness ==
  /\ last.op = "toPacketlist"
  /\ Canonical(packetlist)
  /\ Len(packetlist) = MaxLen
  /\ \E i \in 1..Len(packetlist) : IsSubkeyTag(packetlist[i].tag)
  /\ \E i \in 1..Len(packetlist) :
       packetlist[i].tag = "signature" /\ packetlist[i].signatureType = "key_revocation"
  /\ last.result = packetlist

(***************************************************************************)
(* Validation and selection on one key.  Init draws the key (built by the  *)
(* Key constructor from a packet sequence); every action is one query of   *)
(* the key, which also leaves its marks in the signatures' caches.         *)
(***************************************************************************)
Algorithms ==
  {"rsa_encrypt_sign", "rsa_encrypt", "rsa_sign", "elgamal", "dsa", "ecdh", "ecdsa", "eddsa"}

FlagChoices == {<<>>, <<3>>, <<12>>}    \* none, certify|sign, encrypt_communication|encrypt_storage

Sig(id, type, issuer, created) ==
  [SignaturePacket(id, id, type, issuer) EXCEPT !.created = created]

\* a self-certification by key "A"
SelfCert(id, weight, created, good, expirationTime) ==
  [Sig(id, "cert_generic", "A", created) EXCEPT
     !.isPrimaryUserID = weight, !.good = good, !.expirationTime = expirationTime]

\* the same with a key expiration time (keyNeverExpires = false)
KeyExpiring(sig, seconds) ==
  [sig EXCEPT !.keyNeverExpires = "false", !.keyExpirationTime = seconds]

Opt(present, pl) == IF present THEN pl ELSE <<>>

\* keys for the selectors: algorithms, key flags, revocations, one subkey
SelSubkeys ==
  { <<KeyPacket("publicSubkey", "S", alg, 4, 1, 0),
      [Sig(3, "subkey_binding", "A", 1) EXCEPT !.keyFlags = bf]>>
      \o Opt(srev, <<Sig(4, "subkey_revocation", "A", 2)>>) :
      alg \in Algorithms, bf \in FlagChoices, srev \in BOOLEAN }
  \cup
  { <<KeyPacket("publicSubkey", "S", "rsa_encrypt_sign", 4, 1, 0),
      [Sig(3, "subkey_binding", "A", 1) EXCEPT !.keyFlags = bf, !.good = FALSE]>> :
      bf \in FlagChoices }

SelPacketlists ==
  { <<KeyPacket("publicKey", "A", pa, 4, 1, 0)>>
      \o Opt(rev, <<Sig(1, "key_revocation", "A", 2)>>)
      \o <<UserIdPacket("alice"),
           IF ke THEN KeyExpiring([SelfCert(2, 1, 1, TRUE, Infinity) EXCEPT !.keyFlags = sf], 2)
           ELSE [SelfCert(2, 1, 1, TRUE, Infinity) EXCEPT !.keyFlags = sf]>> :
      pa \in Algorithms, rev \in BOOLEAN, sf \in FlagChoices, ke \in BOOLEAN }
  \cup
  { <<PrimaryA>>
      \o Opt(rev, <<Sig(1, "key_revocation", "A", 2)>>)
      \o <<UserIdPacket("alice"), [SelfCert(2, 1, 1, TRUE, Infinity) EXCEPT !.keyFlags = sf]>>
      \o sub :
      rev \in BOOLEAN, sf \in FlagChoices, sub \in SelSubkeys }

\* keys for the primary-user selector: several self-certifications
CertChoices(id) ==
  { SelfCert(id, w, c, TRUE, Infinity) : w \in 0..MaxWeight, c \in 1..2 }
    \cup { SelfCert(id, 1, 2, FALSE, Infinity), SelfCert(id, 1, 1, TRUE, 2) }

SecondUsers ==
  {<<>>}
    \cup { <<up>> \o c2 :
             up \in {UserIdPacket("bob"), UserAttributePacket("photo")},
             c2 \in { <<>>, <<SelfCert(3, 0, 1, TRUE, Infinity)>>,
                      <<SelfCert(3, 1, 2, TRUE, Infinity)>>,
                      <<SelfCert(3, MaxWeight, 2, TRUE, Infinity)>> } }

PrimaryUserPacketlists ==
  { <<PrimaryA, UserIdPacket("alice"), a, b>> \o u2 :
      a \in CertChoices(1), b \in CertChoices(2), u2 \in SecondUsers }
  \cup
  { <<PrimaryA, UserIdPacket("alice"), a>> \o Opt(urev, <<Sig(5, "cert_revocation", "A", 2)>>)
      \o u2 :
      a \in CertChoices(1), urev \in BOOLEAN, u2 \in SecondUsers }

\* keys for the status of the primary key: every status, both key versions
StatusPacketlists ==
  { <<pk>> \o rev \o <<u1>> \o c1 \o u2 :
      pk \in { PrimaryA, KeyPacket("publicKey", "A", "rsa_encrypt_sign", 3, 1, 1),
               KeyPacket("publicKey", "A", "rsa_encrypt_sign", 3, 1, 0) },
      rev \in { <<>>, <<Sig(1, "key_revocation", "A", 2)>>,
                <<[Sig(1, "key_revocation", "A", 2) EXCEPT !.good = FALSE]>>,
                <<Sig(1, "key_revocation", "X", 2)>> },
      u1 \in {UserIdPacket("alice"), UserAttributePacket("photo")},
      c1 \in { <<>>, <<SelfCert(2, 1, 1, TRUE, Infinity)>>, <<SelfCert(2, 1, 1, FALSE, Infinity)>>,
               <<KeyExpiring(SelfCert(2, 1, 1, TRUE, Infinity), 2)>>,
               <<SelfCert(2, 1, 1, TRUE, 3)>> },
      u2 \in { <<>>, <<UserIdPacket("bob"), SelfCert(3, 0, 2, TRUE, Infinity)>>,
               <<UserAttributePacket("logo"), SelfCert(3, 0, 2, TRUE, Infinity)>> } }

\* version 4 keys whose self-certification gives a key expiration time, made
\* with the key or after it
ExpirationPacketlists ==
  { <<KeyPacket("publicKey", "A", "rsa_encrypt_sign", 4, kc, 0), UserIdPacket("alice"),
      KeyExpiring(SelfCert(2, 1, sc, TRUE, Infinity), e)>> :
      kc \in 0..1, sc \in 1..2, e \in 1..2 }

KeyPacketlists ==
  SelPacketlists \cup PrimaryUserPacketlists \cup StatusPacketlists \cup ExpirationPacketlists

SigIds == 1..5

FarDate == SecondsPerDay + MaxDate

\* the dates a query is made at: null, the first seconds, and a day later for
\* a version 3 key
Dates(k) == {NoDate} \cup (0..MaxDate) \cup (IF k.primaryKey.version = 3 THEN {FarDate} ELSE {})

\* the key-id hints: none, the primary key's and a subkey's
KeyIds(k) == {NoKeyId, "A"} \cup (IF Len(k.subKeys) > 0 THEN {"S"} ELSE {})

KeyInit ==
  /\ config = DefaultConfig
  /\ packetlist \in KeyPacketlists
  /\ LET r == Key([EmptyMem EXCEPT !.verified = AllFalse(SigIds),
                                   !.revoked = AllFalse(SigIds)], 1, packetlist)
     IN /\ r.error = "none"
        /\ keys = r.m.keys /\ users = r.m.users /\ subKeys = r.m.subKeys /\ sigs = r.m.sigs
        /\ verified = r.m.verified /\ revoked = r.m.revoked
  /\ now = 0
  /\ last = [op |-> "Key"]

\* a query returns: the caches it filled stay, `last` records the call
ReturnsPacket(op, keyId, date, x) ==
  /\ SetMem(x.m)
  /\ last' = [op |-> op, keyId |-> keyId, date |-> date, result |-> x.r,
              status |-> x.status]
  /\ UNCHANGED <<now, packetlist, config>>

ReturnsPackets(op, keyId, date, x) ==
  /\ SetMem(x.m)
  /\ last' = [op |-> op, keyId |-> keyId, date |-> date, result |-> x.r,
              status |-> x.status, statuses |-> x.statuses]
  /\ UNCHANGED <<now, packetlist, config>>

ReturnsValue(op, date, x) ==
  /\ SetMem(x.m)
  /\ last' = [op |-> op, date |-> date, result |-> x.r]
  /\ UNCHANGED <<now, packetlist, config>>

GetSigningKeyPacket ==
  /\ last.op = "Key"
  /\ \E keyId \in KeyIds(keys[1]), date \in Dates(keys[1]) :
       ReturnsPacket("getSigningKeyPacket", keyId, date,
                     getSigningKeyPacket(Mem, 1, keyId, date))

GetEncryptionKeyPacket ==
  /\ last.op = "Key"
  /\ \E keyId \in KeyIds(keys[1]), date \in Dates(keys[1]) :
       ReturnsPacket("getEncryptionKeyPacket", keyId, date,
                     getEncryptionKeyPacket(Mem, 1, keyId, date))

VerifyKeyPackets ==
  /\ last.op = "Key"
  /\ \E keyId \in KeyIds(keys[1]), date \in Dates(keys[1]) :
       ReturnsPackets("verifyKeyPackets", keyId, date,
                      verifyKeyPackets(Mem, 1, keyId, date))

VerifyPrimaryKey ==
  /\ last.op = "Key"
  /\ \E date \in Dates(keys[1]) :
       ReturnsValue("verifyPrimaryKey", date, verifyPrimaryKey(Mem, 1, date))

GetPrimaryUser ==
  /\ last.op = "Key"
  /\ \E date \in Dates(keys[1]) :
       ReturnsValue("getPrimaryUser", date, getPrimaryUser(Mem, 1, date))

\* the caller takes the result; the key is ready for the next query
Return ==
  /\ last.op \in {"getSigningKeyPacket", "getEncryptionKeyPacket", "verifyKeyPackets",
                  "verifyPrimaryKey", "getPrimaryUser"}
  /\ last' = [op |-> "Key"]
  /\ UNCHANGED <<keys, users, subKeys, sigs, verified, revoked, now, packetlist, config>>

KeyNext ==
  \/ Return
  \/ GetSigningKeyPacket
  \/ GetEncryptionKeyPacket
  \/ VerifyKeyPackets
  \/ VerifyPrimaryKey
  \/ GetPrimaryUser

SpecKey == KeyInit /\ [][KeyNext]_vars

(***************************************************************************)
(* Properties of the key queries.                                          *)
(***************************************************************************)
Range(f) == { f[i] : i \in DOMAIN f }

IsSelector(op) == op \in {"getSigningKeyPacket", "getEncryptionKeyPacket"}

\* the packet of every subkey that verifyKeyPackets returned was judged valid
SubKeysReturnedValid ==
  \A i \in 1..Len(keys[1].subKeys) :
    subKeys[keys[1].subKeys[i]].subKey \in Range(last.result)
      => last.statuses[i] = keyStatus.valid

\* C2: a selector returns the primary key packet only if verifyPrimaryKey said
\* valid, and verifyKeyPackets includes the primary packet or a subkey packet
\* only if verifyPrimaryKey / SubKey.verify said valid for it
C2_OnlyValidAccepted ==
  /\ (IsSelector(last.op) /\ last.result = keys[1].primaryKey)
       => last.status = keyStatus.valid
  /\ last.op = "verifyKeyPackets"
       => /\ keys[1].primaryKey \in Range(last.result) => last.status = keyStatus.valid
          /\ SubKeysReturnedValid

\* a key revocation signature of the key that verifies under its primary key
HasVerifyingKeyRevocation ==
  LET primaryKey == keys[1].primaryKey
      rs == sigs[keys[1].revocationSignatures]
  IN \E i \in 1..Len(rs) :
       verify(Mem, rs[i], primaryKey, DataToVerify(primaryKey, NoPacket, NoPacket)).r

\* C3: on a key that carries a verifying key revocation issued by its primary
\* key, verifyPrimaryKey returns revoked and getSigningKeyPacket returns none,
\* for every key-id hint and date
C3_RevokedKeyNotSelected ==
  HasVerifyingKeyRevocation
    => /\ last.op = "verifyPrimaryKey" => last.result = keyStatus.revoked
       /\ last.op = "getSigningKeyPacket" => last.result = NoPacket

\* the self-certifications that verify, are not revoked and are not expired at
\* the date, each with the index of its user
Survivors(date) ==
  LET primaryKey == keys[1].primaryKey
  IN { c \in UNION { { [index |-> i, user |-> keys[1].users[i], selfCertification |-> cert] :
                         cert \in Range(sigs[users[keys[1].users[i]].selfCertifications]) } :
                     i \in 1..Len(keys[1].users) } :
         LET user == users[c.user]
             cert == c.selfCertification
         IN /\ user.userId # NoPacket
            /\ verify(Mem, cert, primaryKey, DataToVerify(primaryKey, user.userId, NoPacket)).r
            /\ ~UserIsRevoked(Mem, c.user, primaryKey, cert, NoPacket, date).r
            /\ ~isExpired(cert, date) }

\* the total order of the selection: higher weight first, then later created
Outranks(a, b) ==
  \/ a.selfCertification.isPrimaryUserID > b.selfCertification.isPrimaryUserID
  \/ /\ a.selfCertification.isPrimaryUserID = b.selfCertification.isPrimaryUserID
     /\ a.selfCertification.created > b.selfCertification.created

AllUsersHaveUserId == \A i \in 1..Len(keys[1].users) : users[keys[1].users[i]].userId # NoPacket

\* C4: getPrimaryUser returns a surviving self-certification that no other
\* survivor outranks (higher isPrimaryUserID weight, then later created),
\* together with its user and the user's index
C4_TopmostSurvivor ==
  (last.op = "getPrimaryUser" /\ AllUsersHaveUserId /\ Survivors(last.date) # {})
    => /\ last.result \in Survivors(last.date)
       /\ \A c \in Survivors(last.date) : ~Outranks(c, last.result)

\* the status by the fixed priority; anyUser tells whether a self-certification
\* on a user without a UserID packet counts in the second test
StatusByPriority(date, anyUser) ==
  LET primaryKey == keys[1].primaryKey
      selfCertified == \E i \in 1..Len(keys[1].users) :
                         LET user == users[keys[1].users[i]]
                         IN /\ Len(sigs[user.selfCertifications]) > 0
                            /\ (anyUser \/ user.userId # NoPacket)
      pu == getPrimaryUser(Mem, 1, date).r
  IN IF HasVerifyingKeyRevocation THEN keyStatus.revoked
     ELSE IF ~selfCertified THEN keyStatus.no_self_cert
     ELSE IF pu = NoUser THEN keyStatus.invalid
     ELSE IF isDataExpired(primaryKey,
                           IF primaryKey.version = 3 THEN NoPacket ELSE pu.selfCertification,
                           date)
       THEN keyStatus.expired
     ELSE keyStatus.valid

\* C5 as stated: verifyPrimaryKey returns the first status that applies of
\* revoked, no_self_cert (no user has a self-certification), invalid
\* (getPrimaryUser is none), expired, valid
C5_PriorityAnyUser ==
  last.op = "verifyPrimaryKey" => last.result = StatusByPriority(last.date, TRUE)

\* C5 amended: the same priority, where no_self_cert applies when no user that
\* has a UserID packet has a self-certification
C5_PriorityUserId ==
  last.op = "verifyPrimaryKey" => last.result = StatusByPriority(last.date, FALSE)

\* a revoked key without any self-certification is reported revoked
C5_Witness ==
  /\ last.op = "verifyPrimaryKey"
  /\ HasVerifyingKeyRevocation
  /\ ~SomeSelfCertifiedUserId(Mem, 1)
  /\ last.result = keyStatus.revoked

\* C11: a version 4 key whose governing signature has keyNeverExpires = false
\* and keyExpirationTime = E is expired at t exactly when t < key.created or
\* t >= key.created + E, or the governing signature is expired at t
C11_V4Expiration ==
  (/\ last.op = "verifyPrimaryKey" /\ last.date # NoDate
   /\ last.result \in {keyStatus.valid, keyStatus.expired}
   /\ keys[1].primaryKey.version = 4
   /\ getPrimaryUser(Mem, 1, last.date).r # NoUser
   /\ getPrimaryUser(Mem, 1, last.date).r.selfCertification.keyNeverExpires = "false")
    => (last.result = keyStatus.expired
          <=> \/ last.date < keys[1].primaryKey.created
              \/ last.date >= keys[1].primaryKey.created
                                + getPrimaryUser(Mem, 1, last.date).r.selfCertification.keyExpirationTime
              \/ isExpired(getPrimaryUser(Mem, 1, last.date).r.selfCertification, last.date))

\* C10: getSigningKeyPacket never returns a packet whose algorithm is
\* rsa_encrypt, elgamal or ecdh, and getEncryptionKeyPacket never returns one
\* whose algorithm is dsa, rsa_sign, ecdsa or eddsa
C10_SelectorDisjointness ==
  /\ (last.op = "getSigningKeyPacket" /\ last.result # NoPacket)
       => last.result.algorithm \notin {"rsa_encrypt", "elgamal", "ecdh"}
  /\ (last.op = "getEncryptionKeyPacket" /\ last.result # NoPacket)
       => last.result.algorithm \notin {"dsa", "rsa_sign", "ecdsa", "eddsa"}

\* an ecdh subkey with a good, unrevoked binding without key flags is asked for
\* by its key id and not returned for signing
C10_Witness ==
  /\ last.op = "getSigningKeyPacket"
  /\ last.keyId = "S"
  /\ last.result = NoPacket
  /\ \E i \in 1..Len(keys[1].subKeys) :
       LET sk == subKeys[keys[1].subKeys[i]]
           bs == sigs[sk.bindingSignatures]
       IN /\ sk.subKey.algorithm = "ecdh"
          /\ Len(sigs[sk.revocationSignatures]) = 0
          /\ Len(bs) = 1 /\ bs[1].good /\ bs[1].keyFlags = <<>>

(***************************************************************************)
(* Merge: Key.prototype.update, User.prototype.update,                     *)
(* SubKey.prototype.update and mergeSignatures.                            *)
(*                                                                         *)
(* An object is named by a handle <<kind, id>>; dest[attr] is the array    *)
(* reference held in its field attr, so that dest[attr] = source makes     *)
(* both objects hold the same array.                                       *)
(***************************************************************************)
KeyObj(slot) == <<"k", slot>>
UserObj(ref) == <<"u", ref>>
SubKeyObj(ref) == <<"s", ref>>

\* dest[attr]
GetAttr(m, obj, attr) ==
  IF obj[1] = "k" THEN m.keys[obj[2]][attr]
  ELSE IF obj[1] = "u" THEN m.users[obj[2]][attr]
  ELSE m.subKeys[obj[2]][attr]

\* dest[attr] = ref
SetAttr(m, obj, attr, ref) ==
  IF obj[1] = "k" THEN [m EXCEPT !.keys[obj[2]][attr] = ref]
  ELSE IF obj[1] = "u" THEN [m EXCEPT !.users[obj[2]][attr] = ref]
  ELSE [m EXCEPT !.subKeys[obj[2]][attr] = ref]

\* dest[attr].some(destSig => equalsUint8Array(destSig.signature, sourceSig.signature))
HasSignature(arr, sourceSig) ==
  \E i \in 1..Len(arr) : arr[i].signature = sourceSig.signature

\* the body of the map callback without a checkFn: nothing is awaited, the
\* signature is tested and pushed at once
msPlainStep(m, sourceSig, dref, date) ==
  IF ~isExpired(sourceSig, date) /\ ~HasSignature(m.sigs[dref], sourceSig)
    THEN Push(m, dref, sourceSig) ELSE m

RECURSIVE msPlain(_, _, _, _, _, _)
msPlain(m, sref, dref, date, i, n) ==
  IF i > n THEN m
  ELSE msPlain(msPlainStep(m, m.sigs[sref][i], dref, date), sref, dref, date, i + 1, n)

\* a checkFn: the verification of the source signature under `key` over
\* `data`; the one of SubKey.prototype.update goes on to the binding loop
NoCheck == [kind |-> "none"]
VerifyCheck(key, data) == [kind |-> "verify", key |-> key, data |-> data]
BindingCheck(key, data) == [kind |-> "binding", key |-> key, data |-> data]

\* the loop of the binding checkFn: the first index i at which
\* that.bindingSignatures[i] has the issuer of srcBindSig and
\* srcBindSig.created < that.bindingSignatures[i].created, or 0
BindingToReplace(arr, srcBindSig) ==
  LET hits == { i \in 1..Len(arr) :
                  /\ KeyIdEquals(arr[i].issuerKeyId, srcBindSig.issuerKeyId)
                  /\ srcBindSig.created < arr[i].created }
  IN IF hits = {} THEN 0 ELSE CHOOSE i \in hits : \A j \in hits : i <= j

\* the synchronous part of one map callback with a checkFn, on the state
\* [m, pending]: v is the outcome of the verification, fast whether the
\* signature was verified before (then nothing is awaited in the checkFn)
msLaunched(st, sourceSig, fast, v, dref, check) ==
  LET i == BindingToReplace(v.m.sigs[dref], sourceSig)
  IN IF check.kind = "binding" /\ v.r /\ i # 0
       THEN [m |-> [v.m EXCEPT !.sigs[dref][i] = sourceSig],
             pending |-> Append(st.pending,
                                [sig |-> sourceSig, ok |-> FALSE, fast |-> fast])]
     ELSE [m |-> v.m,
           pending |-> Append(st.pending, [sig |-> sourceSig, ok |-> v.r, fast |-> fast])]

msLaunchStep(st, sourceSig, dref, check, date) ==
  IF isExpired(sourceSig, date) THEN st
  ELSE msLaunched(st, sourceSig, st.m.verified[sourceSig.id],
                  verifiedOrVerify(st.m, sourceSig, check.key, check.data), dref, check)

\* source.map(...): every callback runs up to its first await, in index order
RECURSIVE msLaunch(_, _, _, _, _, _, _)
msLaunch(st, sref, dref, check, date, i, n) ==
  IF i > n THEN st
  ELSE msLaunch(msLaunchStep(st, st.m.sigs[sref][i], dref, check, date),
                sref, dref, check, date, i + 1, n)

Reverse(q) == [i \in 1..Len(q) |-> q[Len(q) + 1 - i]]

\* the order the callbacks resume in: those that awaited no verification
\* first, then the others as their verifications complete
Completion(pending, order) ==
  LET Fast(p) == p.fast
      Slow(p) == ~p.fast
  IN SelectSeq(pending, Fast)
       \o (IF order = "index" THEN SelectSeq(pending, Slow)
           ELSE Reverse(SelectSeq(pending, Slow)))

\* the rest of a callback: the duplicate test and the push
msResumeStep(m, p, dref) ==
  IF p.ok /\ ~HasSignature(m.sigs[dref], p.sig) THEN Push(m, dref, p.sig) ELSE m

RECURSIVE msResume(_, _, _, _)
msResume(m, done, dref, i) ==
  IF i > Len(done) THEN m
  ELSE msResume(msResumeStep(m, done[i], dref), done, dref, i + 1)

msJoin(st, dref, order) == msResume(st.m, Completion(st.pending, order), dref, 1)

\* mergeSignatures(source, dest, attr, checkFn), sref being source[attr]
mergeSignatures(m, sref, dest, attr, check, date, order) ==
  IF Len(m.sigs[GetAttr(m, dest, attr)]) = 0 THEN SetAttr(m, dest, attr, sref)
  ELSE IF check.kind = "none"
    THEN msPlain(m, sref, GetAttr(m, dest, attr), date, 1, Len(m.sigs[sref]))
  ELSE msJoin(msLaunch([m |-> m, pending |-> <<>>], sref, GetAttr(m, dest, attr),
                       check, date, 1, Len(m.sigs[sref])),
              GetAttr(m, dest, attr), order)

\* User.prototype.update(user, primaryKey): the three merges, one after the
\* other; dref is this and sref the source user
uuData(m, dref, primaryKey) ==
  DataToVerify(primaryKey, UserPacketOf(m.users[dref]), NoPacket)

uuSelf(m, dref, sref, primaryKey, date, order) ==
  mergeSignatures(m, m.users[sref].selfCertifications, UserObj(dref), "selfCertifications",
                  VerifyCheck(primaryKey, uuData(m, dref, primaryKey)), date, order)

uuOther(m, dref, sref, date, order) ==
  mergeSignatures(m, m.users[sref].otherCertifications, UserObj(dref), "otherCertifications",
                  NoCheck, date, order)

uuRevocation(m, dref, sref, primaryKey, date, order) ==
  mergeSignatures(m, m.users[sref].revocationSignatures, UserObj(dref),
                  "revocationSignatures",
                  VerifyCheck(primaryKey, uuData(m, dref, primaryKey)), date, order)

UserUpdate(m, dref, sref, primaryKey, date, order) ==
  uuRevocation(uuOther(uuSelf(m, dref, sref, primaryKey, date, order),
                       dref, sref, date, order),
               dref, sref, primaryKey, date, order)

\* SubKey.prototype.update(subKey, primaryKey)
suData(m, dref, primaryKey) == DataToVerify(primaryKey, NoPacket, m.subKeys[dref].subKey)

\* this.subKey = subKey.subKey when this is public and the source is secret
suPacket(m, dref, sref) ==
  IF /\ m.subKeys[dref].subKey.tag = "publicSubkey"
     /\ m.subKeys[sref].subKey.tag = "secretSubkey"
    THEN [m EXCEPT !.subKeys[dref].subKey = m.subKeys[sref].subKey]
  ELSE m

suBinding(m, dref, sref, primaryKey, date, order) ==
  mergeSignatures(m, m.subKeys[sref].bindingSignatures, SubKeyObj(dref), "bindingSignatures",
                  BindingCheck(primaryKey, suData(m, dref, primaryKey)), date, order)

suRevocation(m, dref, sref, primaryKey, date, order) ==
  mergeSignatures(m, m.subKeys[sref].revocationSignatures, SubKeyObj(dref),
                  "revocationSignatures",
                  VerifyCheck(primaryKey, suData(m, dref, primaryKey)), date, order)

\* sv is the outcome of subKey.verify(primaryKey)
suVerified(sv, dref, sref, primaryKey, date, order) ==
  IF sv.r = keyStatus.invalid THEN sv.m
  ELSE suRevocation(suBinding(suPacket(sv.m, dref, sref), dref, sref, primaryKey, date, order),
                    dref, sref, primaryKey, date, order)

SubKeyUpdate(m, dref, sref, primaryKey, date, order) ==
  suVerified(SubKeyVerify(m, sref, primaryKey, date), dref, sref, primaryKey, date, order)

\* the test of a source user against a destination user:
\* (srcUser.userId && srcUser.userId.userid === dstUser.userId.userid) ||
\* (srcUser.userAttribute && srcUser.userAttribute.equals(dstUser.userAttribute))
SameUser(srcUser, dstUser) ==
  IF srcUser.userId # NoPacket
    THEN IF dstUser.userId = NoPacket THEN "TypeError"
         ELSE IF srcUser.userId.userid = dstUser.userId.userid THEN "yes" ELSE "no"
  ELSE IF srcUser.userAttribute # NoPacket /\ srcUser.userAttribute = dstUser.userAttribute
    THEN "yes" ELSE "no"

\* the users of update(): every source user against every user the
\* destination had when the loop began; a source user found nowhere is pushed
RECURSIVE kuUsers(_, _, _, _, _, _, _, _)
kuUserPair(m, dst, srcRef, dstRef, date, order) ==
  IF SameUser(m.users[srcRef], m.users[dstRef]) = "yes"
    THEN UserUpdate(m, dstRef, srcRef, m.keys[dst].primaryKey, date, order)
  ELSE m

kuUsers(m, dst, srcUsers, dstUsers, date, order, i, j) ==
  IF i > Len(srcUsers) THEN m
  ELSE IF j > Len(dstUsers) THEN kuUsers(m, dst, srcUsers, dstUsers, date, order, i + 1, 1)
  ELSE kuUsers(kuUserPair(m, dst, srcUsers[i], dstUsers[j], date, order),
               dst, srcUsers, dstUsers, date, order, i, j + 1)

\* the source users that are pushed: found nowhere, and no test of theirs failed
kuNewUsers(m, srcUsers, dstUsers) ==
  LET New(srcRef) == \A j \in 1..Len(dstUsers) :
                       SameUser(m.users[srcRef], m.users[dstUsers[j]]) = "no"
  IN SelectSeq(srcUsers, New)

kuUsersFail(m, srcUsers, dstUsers) ==
  \E i \in 1..Len(srcUsers), j \in 1..Len(dstUsers) :
    SameUser(m.users[srcUsers[i]], m.users[dstUsers[j]]) = "TypeError"

kuPushUsers(m, dst, new) == [m EXCEPT !.keys[dst].users = @ \o new]

\* the subkeys of update(), in the same way, by fingerprint
RECURSIVE kuSubKeys(_, _, _, _, _, _, _, _)
kuSubKeyPair(m, dst, srcRef, dstRef, date, order) ==
  IF m.subKeys[srcRef].subKey.fingerprint = m.subKeys[dstRef].subKey.fingerprint
    THEN SubKeyUpdate(m, dstRef, srcRef, m.keys[dst].primaryKey, date, order)
  ELSE m

kuSubKeys(m, dst, srcSubKeys, dstSubKeys, date, order, i, j) ==
  IF i > Len(srcSubKeys) THEN m
  ELSE IF j > Len(dstSubKeys)
    THEN kuSubKeys(m, dst, srcSubKeys, dstSubKeys, date, order, i + 1, 1)
  ELSE kuSubKeys(kuSubKeyPair(m, dst, srcSubKeys[i], dstSubKeys[j], date, order),
                 dst, srcSubKeys, dstSubKeys, date, order, i, j + 1)

kuNewSubKeys(m, srcSubKeys, dstSubKeys) ==
  LET New(srcRef) == \A j \in 1..Len(dstSubKeys) :
                       m.subKeys[srcRef].subKey.fingerprint
                         # m.subKeys[dstSubKeys[j]].subKey.fingerprint
  IN SelectSeq(srcSubKeys, New)

kuPushSubKeys(m, dst, new) == [m EXCEPT !.keys[dst].subKeys = @ \o new]

\* Key.prototype.isPublic / isPrivate
isPublic(k) == k.primaryKey.tag = "publicKey"
isPrivate(k) == k.primaryKey.tag = "secretKey"

\* the test for equal subkey packets
EqualSubKeys(m, dst, src) ==
  /\ Len(m.keys[dst].subKeys) = Len(m.keys[src].subKeys)
  /\ \A i \in 1..Len(m.keys[dst].subKeys) :
       \E j \in 1..Len(m.keys[src].subKeys) :
         m.subKeys[m.keys[dst].subKeys[i]].subKey.fingerprint
           = m.subKeys[m.keys[src].subKeys[j]].subKey.fingerprint

\* the key revocation signatures: the checkFn is
\* isDataRevoked(that.primaryKey, that, [srcRevSig], null, key.primaryKey),
\* whose data is the Key object, which has no property `key`
kuRevocation(m, dst, src, date, order) ==
  mergeSignatures(m, m.keys[src].revocationSignatures, KeyObj(dst), "revocationSignatures",
                  VerifyCheck(m.keys[src].primaryKey,
                              DataToVerify(NoPacket, NoPacket, NoPacket)),
                  date, order)

kuDirect(m, dst, src, date, order) ==
  mergeSignatures(m, m.keys[src].directSignatures, KeyObj(dst), "directSignatures",
                  NoCheck, date, order)

kuSubKeysStage(m, dst, src, date, order) ==
  kuPushSubKeys(kuSubKeys(m, dst, m.keys[src].subKeys, m.keys[dst].subKeys,
                          date, order, 1, 1),
                dst, kuNewSubKeys(m, m.keys[src].subKeys, m.keys[dst].subKeys))

\* after the users: a failed test of a user pair rejects update() before the
\* subkeys, the other callbacks having run to their end
kuAfterUsers(m, failed, dst, src, date, order) ==
  IF failed THEN [m |-> m, r |-> "TypeError"]
  ELSE [m |-> kuSubKeysStage(m, dst, src, date, order), r |-> "ok"]

kuUsersStage(m, dst, src, date, order) ==
  kuAfterUsers(kuPushUsers(kuUsers(m, dst, m.keys[src].users, m.keys[dst].users,
                                   date, order, 1, 1),
                           dst, kuNewUsers(m, m.keys[src].users, m.keys[dst].users)),
               kuUsersFail(m, m.keys[src].users, m.keys[dst].users),
               dst, src, date, order)

kuMerge(m, dst, src, date, order) ==
  kuUsersStage(kuDirect(kuRevocation(m, dst, src, date, order), dst, src, date, order),
               dst, src, date, order)

\* the tests before the merge; vp is the outcome of key.verifyPrimaryKey()
MutKuVerified(vp, dst, src, date, order) ==
  IF vp.r = keyStatus.invalid THEN [m |-> vp.m, r |-> "ignored"]
  ELSE IF vp.m.keys[dst].primaryKey.fingerprint # vp.m.keys[src].primaryKey.fingerprint
    THEN [m |-> vp.m, r |-> "FingerprintMismatch"]
  ELSE IF isPublic(vp.m.keys[dst]) /\ isPrivate(vp.m.keys[src])
    THEN IF ~EqualSubKeys(vp.m, dst, src)
           THEN [m |-> [vp.m EXCEPT !.keys[dst].primaryKey = vp.m.keys[src].primaryKey],
                 r |-> "SubkeyMismatch"]
         ELSE kuMerge([vp.m EXCEPT !.keys[dst].primaryKey = vp.m.keys[src].primaryKey],
                      dst, src, date, order)
  ELSE kuMerge(vp.m, dst, src, date, order)

kuVerified(vp, dst, src, date, order) ==
  IF vp.r = keyStatus.invalid THEN [m |-> vp.m, r |-> "ignored"]
  ELSE IF vp.m.keys[dst].primaryKey.fingerprint # vp.m.keys[src].primaryKey.fingerprint
    THEN [m |-> vp.m, r |-> "FingerprintMismatch"]
  ELSE IF isPublic(vp.m.keys[dst]) /\ isPrivate(vp.m.keys[src])
    THEN IF ~EqualSubKeys(vp.m, dst, src)
           THEN [m |-> vp.m, r |-> "SubkeyMismatch"]
         ELSE kuMerge([vp.m EXCEPT !.keys[dst].primaryKey = vp.m.keys[src].primaryKey],
                      dst, src, date, order)
  ELSE kuMerge(vp.m, dst, src, date, order)

\* Key.prototype.update(key): this is the key in slot dst, key the one in src
update(m, dst, src, date, order) ==
  kuVerified(verifyPrimaryKey(m, src, date), dst, src, date, order)

\* what a key holds: its packets and, array by array, its signatures
Content(m, slot) ==
  LET k == m.keys[slot]
  IN [primaryKey |-> k.primaryKey,
      revocationSignatures |-> m.sigs[k.revocationSignatures],
      directSignatures |-> m.sigs[k.directSignatures],
      users |-> [i \in 1..Len(k.users) |->
                   LET u == m.users[k.users[i]]
                   IN [userId |-> u.userId, userAttribute |-> u.userAttribute,
                       selfCertifications |-> m.sigs[u.selfCertifications],
                       otherCertifications |-> m.sigs[u.otherCertifications],
                       revocationSignatures |-> m.sigs[u.revocationSignatures]]],
      subKeys |-> [i \in 1..Len(k.subKeys) |->
                     LET sk == m.subKeys[k.subKeys[i]]
                     IN [subKey |-> sk.subKey,
                         bindingSignatures |-> m.sigs[sk.bindingSignatures],
                         revocationSignatures |-> m.sigs[sk.revocationSignatures]]]]

(***************************************************************************)
(* Merge specification: two keys are built from packet sequences, then     *)
(* update is called on them, any of the two on any of the two.             *)
(***************************************************************************)
MaxUpdates == 2

Slots == {1, 2}

MergeBytes == 1..17

\* the keys of a pair are read separately: equal signature bytes, distinct
\* signature objects
SigOffset(slot) == (slot - 1) * Cardinality(MergeBytes)

Reidentify(pl, slot) ==
  [i \in 1..Len(pl) |->
     IF pl[i].tag = "signature" THEN [pl[i] EXCEPT !.id = @ + SigOffset(slot)] ELSE pl[i]]

Primary(tag, fp) == KeyPacket(tag, fp, "rsa_encrypt_sign", 4, 1, 0)

Alice == <<UserIdPacket("alice"), SelfCert(2, 1, 1, TRUE, Infinity)>>

Binding(id, created, good) ==
  [Sig(id, "subkey_binding", "A", created) EXCEPT !.good = good]

\* the subkeys of a key whose primary key has tag `tag`
SubkeyOf(tag, fp) ==
  KeyPacket(IF tag = "secretKey" THEN "secretSubkey" ELSE "publicSubkey",
            fp, "rsa_encrypt_sign", 4, 1, 0)

SubkeyChoices(tag) ==
  { <<>>,
    <<SubkeyOf(tag, "S"), Binding(5, 1, TRUE)>>,
    <<SubkeyOf(tag, "S"), Binding(6, 2, TRUE)>>,
    <<SubkeyOf(tag, "S"), Binding(5, 1, TRUE), Binding(6, 2, TRUE)>>,
    <<SubkeyOf(tag, "S"), Binding(6, 2, TRUE), Binding(5, 1, TRUE)>>,
    <<SubkeyOf(tag, "S"), Binding(5, 1, TRUE), Sig(13, "subkey_revocation", "A", 2)>>,
    <<SubkeyOf(tag, "S"), Binding(15, 1, FALSE)>>,
    <<SubkeyOf(tag, "T"), Binding(14, 1, TRUE)>> }

UserChoices ==
  { Alice,
    Alice \o <<Sig(4, "cert_generic", "X", 1)>>,
    Alice \o <<SelfCert(7, 1, 1, TRUE, 2)>>,
    Alice \o <<SelfCert(3, 0, 2, FALSE, Infinity)>>,
    Alice \o <<Sig(10, "cert_revocation", "X", 2)>>,
    Alice \o <<UserIdPacket("bob"), SelfCert(9, 0, 1, TRUE, Infinity)>>,
    Alice \o <<UserAttributePacket("photo"), SelfCert(12, 0, 1, TRUE, Infinity)>>,
    <<UserAttributePacket("photo"), SelfCert(12, 0, 1, TRUE, Infinity)>> \o Alice }

\* pairs that differ in their users
UserPairs ==
  { <<<<Primary("publicKey", "A")>> \o u1, <<Primary("publicKey", "A")>> \o u2>> :
      u1 \in UserChoices, u2 \in UserChoices }

\* pairs that differ in their key revocations and direct signatures
KeySignaturePairs ==
  { <<<<Primary("publicKey", "A")>> \o r1 \o d1 \o Alice,
      <<Primary("publicKey", "A")>> \o r2 \o d2 \o Alice>> :
      r1 \in { <<>>, <<Sig(1, "key_revocation", "A", 2)>> },
      r2 \in { <<>>, <<Sig(1, "key_revocation", "A", 2)>>,
               <<Sig(16, "key_revocation", "A", 1)>>,
               <<[Sig(8, "key_revocation", "A", 2) EXCEPT !.good = FALSE]>> },
      d1 \in { <<>>, <<Sig(11, "key", "A", 1)>> },
      d2 \in { <<>>, <<Sig(11, "key", "A", 1)>>, <<Sig(17, "key", "A", 2)>> } }

\* pairs that differ in their subkeys, public or private
SubkeyPairs ==
  UNION { { <<<<Primary(t[1], "A")>> \o Alice \o s1, <<Primary(t[2], "A")>> \o Alice \o s2>> :
              s1 \in SubkeyChoices(t[1]), s2 \in SubkeyChoices(t[2]) } :
          t \in { <<"publicKey", "publicKey">>, <<"publicKey", "secretKey">> } }

\* pairs whose second key has another fingerprint or no valid self-certification
RejectedPairs ==
  { <<k1, k2>> :
      k1 \in { <<Primary("publicKey", "A")>> \o Alice,
               <<Primary("publicKey", "A")>> \o Alice
                 \o <<SubkeyOf("publicKey", "S"), Binding(5, 1, TRUE)>> },
      k2 \in { <<Primary("publicKey", "B"), UserIdPacket("alice"),
                 Sig(2, "cert_generic", "B", 1)>>,
               <<Primary("secretKey", "B")>> \o Alice,
               <<Primary("publicKey", "A"), UserIdPacket("alice"),
                 SelfCert(3, 0, 2, FALSE, Infinity)>>,
               <<Primary("secretKey", "A"), UserIdPacket("alice"),
                 SelfCert(3, 0, 2, FALSE, Infinity), Sig(4, "cert_generic", "X", 1),
                 SubkeyOf("secretKey", "S"), Binding(6, 2, TRUE)>> } }

MergePairs == UserPairs \cup KeySignaturePairs \cup SubkeyPairs \cup RejectedPairs

MergeSigIds == 1..(2 * Cardinality(MergeBytes))

\* both keys read; `now` is the time of the updates
MergeInit ==
  /\ config = DefaultConfig
  /\ packetlist \in MergePairs
  /\ LET r1 == Key([EmptyMem EXCEPT !.verified = AllFalse(MergeSigIds),
                                    !.revoked = AllFalse(MergeSigIds)],
                   1, Reidentify(packetlist[1], 1))
         r2 == Key(r1.m, 2, Reidentify(packetlist[2], 2))
     IN /\ r1.error = "none" /\ r2.error = "none"
        /\ keys = r2.m.keys /\ users = r2.m.users /\ subKeys = r2.m.subKeys
        /\ sigs = r2.m.sigs /\ verified = r2.m.verified /\ revoked = r2.m.revoked
  /\ now = MaxDate
  /\ last = [op |-> "Key", updates |-> 0]

\* update() ends: `last` records the call, what the two keys held before it,
\* the status of the source key and how the call ended
Updated(dst, src, order, before, beforeSrc, status, x) ==
  /\ SetMem(x.m)
  /\ last' = [op |-> "update", dst |-> dst, src |-> src, order |-> order,
              result |-> x.r, before |-> before, beforeSrc |-> beforeSrc,
              status |-> status, updates |-> last.updates + 1]
  /\ UNCHANGED <<now, packetlist, config>>

Update ==
  /\ last.op \in {"Key", "update"}
  /\ last.updates < MaxUpdates
  /\ \E dst \in Slots, src \in Slots, order \in {"index", "reverse"} :
       Updated(dst, src, order, Content(Mem, dst), Content(Mem, src),
               verifyPrimaryKey(Mem, src, now).r, update(Mem, dst, src, now, order))

\* keyPackets[i].writePublicKey() read back as a PublicKey / PublicSubkey
\* packet: the public fields of the packet under the public tag
MutPublicPacket(pkt) ==
  IF pkt.tag = "secretKey" THEN [pkt EXCEPT !.tag = "publicKey"] ELSE pkt

PublicPacket(pkt) ==
  IF pkt.tag = "secretKey" THEN [pkt EXCEPT !.tag = "publicKey"]
  ELSE IF pkt.tag = "secretSubkey" THEN [pkt EXCEPT !.tag = "publicSubkey"]
  ELSE pkt

\* the loop of toPublic over this.toPacketlist()
toPublicPacketlist(keyPackets) ==
  [i \in 1..Len(keyPackets) |-> PublicPacket(keyPackets[i])]

\* Key.prototype.toPublic: the new Key is built in the slot `to`; [m, error]
toPublic(m, slot, to) == Key(m, to, toPublicPacketlist(toPacketlist(m, slot)))

PublicSlot == 3

\* toPublic() returns: the key it was called on is as it was; `last` holds
\* the new Key, in the slot PublicSlot of last.result.m
ToPublicReturns(slot, x) ==
  /\ last' = [op |-> "toPublic", slot |-> slot, result |-> x, caller |-> last]
  /\ UNCHANGED <<keys, users, subKeys, sigs, verified, revoked, now, packetlist, config>>

ToPublic ==
  /\ last.op \in {"Key", "update"}
  /\ \E slot \in Slots : ToPublicReturns(slot, toPublic(Mem, slot, PublicSlot))

\* the caller takes the public key and goes on
ToPublicReturn ==
  /\ last.op = "toPublic"
  /\ last' = last.caller
  /\ UNCHANGED <<keys, users, subKeys, sigs, verified, revoked, now, packetlist, config>>

MergeNext == Update \/ ToPublic \/ ToPublicReturn

SpecMerge == MergeInit /\ [][MergeNext]_vars

(***************************************************************************)
(* Merge properties.                                                       *)
(***************************************************************************)
\* the raw signature bytes of a signature list
Bytes(q) == { q[i].signature : i \in 1..Len(q) }

\* the signature lists of a key, given by its content
SigLists(c) ==
  {c.revocationSignatures, c.directSignatures}
    \cup UNION { { c.users[i].selfCertifications, c.users[i].otherCertifications,
                   c.users[i].revocationSignatures } : i \in 1..Len(c.users) }
    \cup UNION { { c.subKeys[i].bindingSignatures, c.subKeys[i].revocationSignatures } :
                 i \in 1..Len(c.subKeys) }

NoDuplicates(c) ==
  \A q \in SigLists(c) :
    \A i \in 1..Len(q), j \in 1..Len(q) : i # j => q[i].signature # q[j].signature

\* C6: after k.update(k), every collection of k has the same content in the
\* same order as before the call
C6_Idempotent ==
  (last.op = "update" /\ last.dst = last.src) => Content(Mem, last.dst) = last.before

\* C7: if neither the destination nor the source held two signatures with
\* equal bytes in one collection, no signature collection of the destination
\* holds two signatures with equal bytes after update
C7_NoDuplicates ==
  (/\ last.op = "update" /\ last.result = "ok"
   /\ NoDuplicates(last.before) /\ NoDuplicates(last.beforeSrc))
    => NoDuplicates(Content(Mem, last.dst))

\* the users of a key with the byte sets of their three signature lists
UserSigs(c) ==
  { <<c.users[i].userId, c.users[i].userAttribute,
      Bytes(c.users[i].selfCertifications), Bytes(c.users[i].otherCertifications),
      Bytes(c.users[i].revocationSignatures)>> : i \in 1..Len(c.users) }

\* the subkeys of a key, by fingerprint, with the byte sets of their revocations
SubKeySigs(c) ==
  { <<c.subKeys[i].subKey.fingerprint, Bytes(c.subKeys[i].revocationSignatures)>> :
      i \in 1..Len(c.subKeys) }

\* of the binding signatures of one subkey in the two results, the
\* later-created one of every issuer is in both
LaterInBoth(q1, q2) ==
  \A s \in Range(q1) \cup Range(q2) :
    (\A t \in Range(q1) \cup Range(q2) :
       KeyIdEquals(t.issuerKeyId, s.issuerKeyId) => t.created <= s.created)
      => s.signature \in Bytes(q1) \cap Bytes(q2)

SameMerge(c1, c2) ==
  /\ Bytes(c1.revocationSignatures) = Bytes(c2.revocationSignatures)
  /\ Bytes(c1.directSignatures) = Bytes(c2.directSignatures)
  /\ UserSigs(c1) = UserSigs(c2)
  /\ SubKeySigs(c1) = SubKeySigs(c2)
  /\ \A i \in 1..Len(c1.subKeys), j \in 1..Len(c2.subKeys) :
       c1.subKeys[i].subKey.fingerprint = c2.subKeys[j].subKey.fingerprint
         => LaterInBoth(c1.subKeys[i].bindingSignatures, c2.subKeys[j].bindingSignatures)

\* a is the outcome of k1.update(k2), b the one of k2.update(k1)
SameOutcome(a, b) ==
  (a.r = "ok" /\ b.r = "ok") => SameMerge(Content(a.m, 1), Content(b.m, 2))

\* C8: k1.update(k2) and k2.update(k1) leave k1 and k2 with the same users,
\* the same subkeys by fingerprint and the same signatures by bytes in every
\* collection, the later-created binding signature of an issuer being in both
C8_Commutes ==
  (/\ last.op = "Key"
   /\ keys[1].primaryKey.fingerprint = keys[2].primaryKey.fingerprint)
    => SameOutcome(update(Mem, 1, 2, now, "index"), update(Mem, 2, 1, now, "index"))

\* the signature lists and user packets of a key, in their order
Signatures(c) ==
  [revocationSignatures |-> c.revocationSignatures,
   directSignatures |-> c.directSignatures,
   users |-> c.users,
   subKeys |-> [i \in 1..Len(c.subKeys) |->
                  [bindingSignatures |-> c.subKeys[i].bindingSignatures,
                   revocationSignatures |-> c.subKeys[i].revocationSignatures]]]

\* p is the content of toPublic(k), c that of k, again the outcome of
\* toPublic(toPublic(k))
IsPublicOf(p, c, packets, again) ==
  /\ p.primaryKey.tag = "publicKey"
  /\ p.primaryKey = [c.primaryKey EXCEPT !.tag = "publicKey"]
  /\ \A i \in 1..Len(p.subKeys) :
       /\ p.subKeys[i].subKey.tag = "publicSubkey"
       /\ p.subKeys[i].subKey = [c.subKeys[i].subKey EXCEPT !.tag = "publicSubkey"]
  /\ Signatures(p) = Signatures(c)
  /\ again.error = "none"
  /\ toPacketlist(again.m, PublicSlot + 1) = packets

\* C13: toPublic(k) is a Key whose primary packet is a PublicKey and whose
\* subkey packets are PublicSubkeys, with the users and all signatures of k in
\* the same order, and toPublic(toPublic(k)) has the packet sequence of
\* toPublic(k)
C13_ToPublic ==
  last.op = "toPublic" =>
    /\ last.result.error = "none"
    /\ IsPublicOf(Content(last.result.m, PublicSlot), Content(Mem, last.slot),
                  toPacketlist(last.result.m, PublicSlot),
                  toPublic(last.result.m, PublicSlot, PublicSlot + 1))

\* a private key with a private subkey was made public after an update
C13_Witness ==
  /\ last.op = "toPublic" /\ last.caller.op = "update"
  /\ keys[last.slot].primaryKey.tag = "secretKey"
  /\ \E i \in 1..Len(keys[last.slot].subKeys) :
       subKeys[keys[last.slot].subKeys[i]].subKey.tag = "secretSubkey"
  /\ Content(last.result.m, PublicSlot).primaryKey.tag = "publicKey"

SubKeyFingerprints(c) == { c.subKeys[i].subKey.fingerprint : i \in 1..Len(c.subKeys) }

\* the three rejections, from what the keys held before the call
Rejection ==
  IF last.status = keyStatus.invalid THEN "ignored"
  ELSE IF last.before.primaryKey.fingerprint # last.beforeSrc.primaryKey.fingerprint
    THEN "FingerprintMismatch"
  ELSE IF /\ last.before.primaryKey.tag = "publicKey"
          /\ last.beforeSrc.primaryKey.tag = "secretKey"
          /\ SubKeyFingerprints(last.before) # SubKeyFingerprints(last.beforeSrc)
    THEN "SubkeyMismatch"
  ELSE "none"

Rejections == {"ignored", "FingerprintMismatch", "SubkeyMismatch"}

\* C9: update returns silently when the source's primary key is invalid,
\* raises a fingerprint mismatch when the primary fingerprints differ and a
\* subkey mismatch when the destination is public, the source private and
\* their subkey fingerprints differ; in the three cases the destination is
\* exactly as before the call
C9_RejectedUnchanged ==
  last.op = "update" =>
    /\ Rejection # "none" => last.result = Rejection
    /\ last.result \in Rejections =>
         Rejection = last.result /\ Content(Mem, last.dst) = last.before

\* a public key with a subkey was updated with a private key without it
C9_Witness ==
  /\ last.op = "update" /\ last.result = "SubkeyMismatch"
  /\ last.before.subKeys # <<>>
  /\ Content(Mem, last.dst) = last.before

(***************************************************************************)
(* Reading: read(data) splits a packet list at its primary key packets and *)
(* constructs one Key of each part; new Key(packetlist) constructs one of  *)
(* the whole list.  The keys that exist are then updated with one another. *)
(***************************************************************************)
MaxReadLen == 5

ReadUniverse ==
  { PrimaryA, SubkeyS, UserIdPacket("alice"),
    SignaturePacket(3, 3, "cert_generic", "A"),
    SignaturePacket(6, 6, "subkey_binding", "A"),
    SignaturePacket(7, 7, "subkey_revocation", "A") }

\* packetlist.read(data): every packet read is an object of its own
Positioned(pl) ==
  [i \in 1..Len(pl) |->
     IF pl[i].tag = "signature" THEN [pl[i] EXCEPT !.id = i] ELSE pl[i]]

ReadInputs ==
  { Positioned(pl) : pl \in UNION { SeqsOfLen(ReadUniverse, n) : n \in 0..MaxReadLen } }

\* packetlist.indexOfTag(enums.packet.publicKey, enums.packet.secretKey)
RECURSIVE indexOfTag(_, _)
indexOfTag(pl, i) ==
  IF i > Len(pl) THEN <<>>
  ELSE (IF IsKeyTag(pl[i].tag) THEN <<i>> ELSE <<>>) \o indexOfTag(pl, i + 1)

\* packetlist.slice(keyIndex[i], keyIndex[i + 1])
slice(pl, keyIndex, i) ==
  SubSeq(pl, keyIndex[i], IF i < Len(keyIndex) THEN keyIndex[i + 1] - 1 ELSE Len(pl))

MutReadKey(st, r) ==
  IF r.error = "none" THEN [m |-> r.m, n |-> st.n + 1, err |-> st.err]
  ELSE [m |-> st.m, n |-> st.n, err |-> <<r.error>>]

\* the body of the loop of read(): r is the outcome of new Key(oneKeyList);
\* n keys were pushed to result.keys so far, and err holds the errors pushed
\* to result.err (which is not set while there is none)
readKey(st, r) ==
  IF r.error = "none" THEN [m |-> r.m, n |-> st.n + 1, err |-> st.err]
  ELSE [m |-> st.m, n |-> st.n, err |-> Append(st.err, r.error)]

RECURSIVE readLoop(_, _, _, _)
readLoop(st, pl, keyIndex, i) ==
  IF i > Len(keyIndex) THEN st
  ELSE readLoop(readKey(st, Key(st.m, st.n + 1, slice(pl, keyIndex, i))),
                pl, keyIndex, i + 1)

\* read(data): [m, n, err], the keys being those in the slots 1..n
read(m, pl) ==
  IF Len(indexOfTag(pl, 1)) = 0 THEN [m |-> m, n |-> 0, err |-> <<"NoKeyPacketFound">>]
  ELSE readLoop([m |-> m, n |-> 0, err |-> <<>>], pl, indexOfTag(pl, 1), 1)

ReadInit ==
  /\ config = DefaultConfig
  /\ packetlist \in ReadInputs
  /\ keys = EmptyFn /\ users = EmptyFn /\ subKeys = EmptyFn /\ sigs = EmptyFn
  /\ verified = AllFalse(1..MaxReadLen)
  /\ revoked = AllFalse(1..MaxReadLen)
  /\ now = MaxDate
  /\ last = [op |-> "init"]

ReadReturns(x) ==
  /\ SetMem(x.m)
  /\ last' = [op |-> "read", n |-> x.n, err |-> x.err, updates |-> 0]
  /\ UNCHANGED <<now, packetlist, config>>

Read ==
  /\ last.op = "init"
  /\ ReadReturns(read(Mem, packetlist))

Constructed(r) ==
  /\ SetMem(r.m)
  /\ last' = [op |-> "Key", n |-> IF r.error = "none" THEN 1 ELSE 0,
              err |-> IF r.error = "none" THEN <<>> ELSE <<r.error>>, updates |-> 0]
  /\ UNCHANGED <<now, packetlist, config>>

Construct ==
  /\ last.op = "init"
  /\ Constructed(Key(Mem, 1, packetlist))

ReadUpdated(dst, src, x) ==
  /\ SetMem(x.m)
  /\ last' = [op |-> "update", n |-> last.n, err |-> last.err,
              updates |-> last.updates + 1, dst |-> dst, src |-> src, result |-> x.r]
  /\ UNCHANGED <<now, packetlist, config>>

ReadUpdate ==
  /\ last.op # "init"
  /\ last.updates < MaxUpdates
  /\ \E dst \in 1..last.n, src \in 1..last.n, order \in {"index", "reverse"} :
       ReadUpdated(dst, src, update(Mem, dst, src, now, order))

ReadNext == Read \/ Construct \/ ReadUpdate

SpecRead == ReadInit /\ [][ReadNext]_vars

(***************************************************************************)
(* Reading properties.                                                     *)
(***************************************************************************)
HasKeyPacket(pl) == \E i \in 1..Len(pl) : IsKeyTag(pl[i].tag)
HasUserPacket(pl) == \E i \in 1..Len(pl) : IsUserTag(pl[i].tag)

\* every key that exists has its primary key packet and a user
KeysHavePrimaryAndUser ==
  last.op # "init" =>
    \A j \in 1..last.n : keys[j].primaryKey # NoPacket /\ Len(keys[j].users) > 0

\* a certification that finds a user and no primary key id to compare its
\* issuer with
CertBeforeKey(pl) ==
  \E i \in 1..Len(pl) :
    /\ pl[i].tag = "signature" /\ IsCert(pl[i].signatureType)
    /\ \A j \in 1..(i - 1) : ~IsKeyTag(pl[j].tag)
    /\ \E u \in 1..(i - 1) :
         IsUserTag(pl[u].tag) /\ \A j \in (u + 1)..(i - 1) : ~IsSubkeyTag(pl[j].tag)

enumsSymmetric ==
  [plaintext |-> 0, idea |-> 1, tripledes |-> 2, cast5 |-> 3, blowfish |-> 4,
   aes128 |-> 7, aes192 |-> 8, aes256 |-> 9, twofish |-> 10]

\* config.encryption_cipher
encryption_cipher == enumsSymmetric.aes256

\* a JavaScript value with its type; === holds of values of one type only
Number(n) == [type |-> "number", value |-> n]
PropertyName(n) == [type |-> "string", value |-> n]
StrictEquals(a, b) == a.type = b.type /\ a.value = b.value

\* enums.read(enums.symmetric, algo): the name of the code parseInt(algo), an
\* error for a code that is none
enumsReadThrows(type, algo) == \A name \in DOMAIN type : type[name] # algo.value

\* 64 >> index
ShiftRight64(index) == 64 \div (2 ^ index)

\* the body of the forEach: prioMap[algo] gets its entry, its prio and count grow
psaEntry(prioMap, algo, index) ==
  IF algo \in DOMAIN prioMap
    THEN [prioMap EXCEPT ![algo] = [prio |-> @.prio + ShiftRight64(index),
                                    count |-> @.count + 1, algo |-> algo]]
  ELSE (algo :> [prio |-> ShiftRight64(index), count |-> 1, algo |-> algo]) @@ prioMap

RECURSIVE psaForEach(_, _, _)
psaForEach(prioMap, prefs, i) ==
  IF i > Len(prefs) THEN prioMap
  ELSE psaForEach(psaEntry(prioMap, prefs[i], i - 1), prefs, i + 1)

\* the callback of keys.map, pu being the outcome of key.getPrimaryUser()
psaKey(st, pu) ==
  IF pu.r = NoUser THEN [m |-> pu.m, prioMap |-> st.prioMap]
  ELSE IF pu.r.selfCertification.preferredSymmetricAlgorithms = NoPreferences
    THEN [m |-> pu.m, prioMap |-> st.prioMap]
  ELSE [m |-> pu.m,
        prioMap |-> psaForEach(st.prioMap,
                               pu.r.selfCertification.preferredSymmetricAlgorithms, 1)]

RECURSIVE psaKeys(_, _, _, _)
psaKeys(st, n, date, j) ==
  IF j > n THEN st
  ELSE psaKeys(psaKey(st, getPrimaryUser(st.m, j, date)), n, date, j + 1)

\* the test of one property name of prioMap against the best entry so far
psaQualifies(prioMap, algo, n, prefAlgo) ==
  /\ ~StrictEquals(PropertyName(algo), Number(enumsSymmetric.plaintext))
  /\ ~StrictEquals(PropertyName(algo), Number(enumsSymmetric.idea))
  /\ ~enumsReadThrows(enumsSymmetric, PropertyName(algo))
  /\ prioMap[algo].count = n
  /\ prioMap[algo].prio > prefAlgo.prio

psaBetter(prioMap, algo, n, prefAlgo) ==
  IF psaQualifies(prioMap, algo, n, prefAlgo)
    THEN [prio |-> prioMap[algo].prio, algo |-> algo]
  ELSE prefAlgo

\* for (const algo in prioMap): the integer property names in ascending order
RECURSIVE psaSelect(_, _, _, _)
psaSelect(prioMap, rest, n, prefAlgo) ==
  IF rest = {} THEN prefAlgo
  ELSE psaSelect(prioMap, rest \ {CHOOSE a \in rest : \A b \in rest : a <= b}, n,
                 psaBetter(prioMap, CHOOSE a \in rest : \A b \in rest : a <= b, n, prefAlgo))

psaResult(st, n) ==
  [m |-> st.m,
   r |-> psaSelect(st.prioMap, DOMAIN st.prioMap, n,
                   [prio |-> 0, algo |-> encryption_cipher]).algo]

\* getPreferredSymAlgo(keys), the keys being those in the slots 1..n
getPreferredSymAlgo(m, n, date) ==
  psaResult(psaKeys([m |-> m, prioMap |-> EmptyFn], n, date, 1), n)

MaxPrefs == 2

\* the codes on the lists: plaintext, idea, an unassigned code, aes128, aes256
PrefCodes == {0, 1, 5, 7, 9}

PrefLists == UNION { SeqsOfLen(PrefCodes, len) : len \in 0..MaxPrefs }

\* a key with its user, and its self-certification (signature object id)
\* carrying a preference list, carrying none, or absent
PrefKeys(id) ==
  { <<PrimaryA, UserIdPacket("alice"),
      [SelfCert(id, 1, 1, TRUE, Infinity) EXCEPT !.preferredSymmetricAlgorithms = prefs]>> :
      prefs \in PrefLists \cup {NoPreferences} }
    \cup { <<PrimaryA, UserIdPacket("alice")>> }

PrefInputs == { <<k1>> : k1 \in PrefKeys(1) } \cup (PrefKeys(1) \X PrefKeys(2))

PrefInit ==
  /\ config = DefaultConfig
  /\ packetlist \in PrefInputs
  /\ LET r == read([EmptyMem EXCEPT !.verified = AllFalse(1..2), !.revoked = AllFalse(1..2)],
                   Concat(packetlist))
     IN /\ r.n = Len(packetlist)
        /\ keys = r.m.keys /\ users = r.m.users /\ subKeys = r.m.subKeys /\ sigs = r.m.sigs
        /\ verified = r.m.verified /\ revoked = r.m.revoked
  /\ now = MaxDate
  /\ last = [op |-> "read", n |-> Len(packetlist)]

PrefReturns(x) ==
  /\ SetMem(x.m)
  /\ last' = [op |-> "getPreferredSymAlgo", n |-> last.n, result |-> x.r]
  /\ UNCHANGED <<now, packetlist, config>>

GetPreferredSymAlgo ==
  /\ last.op = "read"
  /\ PrefReturns(getPreferredSymAlgo(Mem, last.n, now))

PrefNext == GetPreferredSymAlgo

SpecPrefs == PrefInit /\ [][PrefNext]_vars

\* the preferred-symmetric list of the primary user of the key in slot j, the
\* empty list if it has none
PrimaryUserPrefs(j) ==
  IF getPrimaryUser(Mem, j, now).r = NoUser THEN <<>>
  ELSE IF getPrimaryUser(Mem, j, now).r.selfCertification.preferredSymmetricAlgorithms
            = NoPreferences THEN <<>>
  ELSE getPrimaryUser(Mem, j, now).r.selfCertification.preferredSymmetricAlgorithms

\* the known algorithms other than plaintext and idea on every key's list
Qualifiers ==
  { a \in Range(enumsSymmetric) \ {enumsSymmetric.plaintext, enumsSymmetric.idea} :
      \A j \in 1..last.n : a \in Range(PrimaryUserPrefs(j)) }

RECURSIVE ListScore(_, _, _)
ListScore(prefs, a, i) ==
  IF i > Len(prefs) THEN 0
  ELSE (IF prefs[i] = a THEN ShiftRight64(i - 1) ELSE 0) + ListScore(prefs, a, i + 1)

RECURSIVE Score(_, _)
Score(a, j) == IF j = 0 THEN 0 ELSE ListScore(PrimaryUserPrefs(j), a, 1) + Score(a, j - 1)

\* C14: getPreferredSymAlgo returns the configured default or a known
\* algorithm other than plaintext and idea that is on the list of the primary
\* user of every key, and of these the one with the highest score
C14_PreferredSymAlgo ==
  last.op = "getPreferredSymAlgo" =>
    /\ last.result = encryption_cipher \/ last.result \in Qualifiers
    /\ Qualifiers # {} =>
         /\ last.result \in Qualifiers
         /\ \A q \in Qualifiers : Score(last.result, last.n) >= Score(q, last.n)

(***************************************************************************)
(* The algorithm dispatch of crypto/crypto.js and the curve registry of    *)
(* crypto/public_key/elliptic/curves.js.  A function that throws returns   *)
(* [error |-> message]; one that returns, [error |-> "none", ...].         *)
(***************************************************************************)
\* a property that an object does not have, or a missing argument
Undefined == -1

\* enums.publicKey, enums.hash: the codes of RFC 4880 section 9 and RFC 6637
enumsPublicKey == [rsa_encrypt_sign |-> 1, rsa_encrypt |-> 2, rsa_sign |-> 3,
                   elgamal |-> 16, dsa |-> 17, ecdh |-> 18, ecdsa |-> 19, eddsa |-> 22]

enumsHash == [md5 |-> 1, sha1 |-> 2, ripemd |-> 3, sha256 |-> 8, sha384 |-> 9,
              sha512 |-> 10, sha224 |-> 11]

\* the parameter types: type/mpi, type/oid, type/kdf_params, type/ecdh_symkey
type_mpi == "mpi"
type_oid == "oid"
type_kdf_params == "kdf_params"
type_ecdh_symkey == "ecdh_symkey"

Throw(message) == [error |-> message]
Types(types) == [error |-> "none", types |-> types]

getPrivKeyParamTypes(algo) ==
  CASE algo \in {"rsa_encrypt", "rsa_encrypt_sign", "rsa_sign"} ->
         Types(<<type_mpi, type_mpi, type_mpi, type_mpi>>)
    [] algo = "elgamal" -> Types(<<type_mpi>>)
    [] algo = "dsa" -> Types(<<type_mpi>>)
    [] algo \in {"ecdh", "ecdsa", "eddsa"} -> Types(<<type_mpi>>)
    [] OTHER -> Throw("Unknown algorithm")

getPubKeyParamTypes(algo) ==
  CASE algo \in {"rsa_encrypt", "rsa_encrypt_sign", "rsa_sign"} ->
         Types(<<type_mpi, type_mpi>>)
    [] algo = "elgamal" -> Types(<<type_mpi, type_mpi, type_mpi>>)
    [] algo = "dsa" -> Types(<<type_mpi, type_mpi, type_mpi, type_mpi>>)
    [] algo \in {"ecdsa", "eddsa"} -> Types(<<type_oid, type_mpi>>)
    [] algo = "ecdh" -> Types(<<type_oid, type_mpi, type_kdf_params>>)
    [] OTHER -> Throw("Unknown algorithm.")

MutGetEncSessionKeyParamTypes(algo) ==
  CASE algo \in {"rsa_encrypt", "rsa_encrypt_sign", "rsa_sign"} -> Types(<<type_mpi>>)
    [] algo = "elgamal" -> Types(<<type_mpi, type_mpi>>)
    [] algo = "ecdh" -> Types(<<type_mpi, type_ecdh_symkey>>)
    [] OTHER -> Throw("Unknown algorithm.")

getEncSessionKeyParamTypes(algo) ==
  CASE algo \in {"rsa_encrypt", "rsa_encrypt_sign"} -> Types(<<type_mpi>>)
    [] algo = "elgamal" -> Types(<<type_mpi, type_mpi>>)
    [] algo = "ecdh" -> Types(<<type_mpi, type_ecdh_symkey>>)
    [] OTHER -> Throw("Unknown algorithm.")

\* util.bin2str of the DER bytes gives a binary string; OID.toHex and
\* util.hexstrdump give its bytes as two hexadecimal digits each
HexDigits == <<"0", "1", "2", "3", "4", "5", "6", "7", "8", "9", "a", "b", "c", "d", "e", "f">>

RECURSIVE hexstrdump(_)
hexstrdump(bytes) ==
  IF bytes = <<>> THEN ""
  ELSE HexDigits[(Head(bytes) \div 16) + 1] \o HexDigits[(Head(bytes) % 16) + 1]
         \o hexstrdump(Tail(bytes))

\* const curves: a property that an entry does not have is Undefined.  The
\* properties node and web depend on the platform and are left out.
CurveParams(oid, keyType, hash, cipher, payloadSize) ==
  [oid |-> oid, keyType |-> keyType, hash |-> hash, cipher |-> cipher,
   payloadSize |-> payloadSize]

curves ==
  [p256 |-> CurveParams(<<42, 134, 72, 206, 61, 3, 1, 7>>, enumsPublicKey.ecdsa,
                        enumsHash.sha256, enumsSymmetric.aes128, 32),
   p384 |-> CurveParams(<<43, 129, 4, 0, 34>>, enumsPublicKey.ecdsa,
                        enumsHash.sha384, enumsSymmetric.aes192, 48),
   p521 |-> CurveParams(<<43, 129, 4, 0, 35>>, enumsPublicKey.ecdsa,
                        enumsHash.sha512, enumsSymmetric.aes256, 66),
   secp256k1 |-> CurveParams(<<43, 129, 4, 0, 10>>, enumsPublicKey.ecdsa,
                             enumsHash.sha256, enumsSymmetric.aes128, Undefined),
   ed25519 |-> CurveParams(<<43, 6, 1, 4, 1, 218, 71, 15, 1>>, enumsPublicKey.eddsa,
                           enumsHash.sha512, Undefined, 32),
   curve25519 |-> CurveParams(<<43, 6, 1, 4, 1, 151, 85, 1, 5, 1>>, enumsPublicKey.ecdsa,
                              enumsHash.sha256, enumsSymmetric.aes128, Undefined),
   brainpoolP256r1 |-> CurveParams(<<43, 36, 3, 3, 2, 8, 1, 1, 7>>, Undefined,
                                   Undefined, Undefined, Undefined),
   brainpoolP384r1 |-> CurveParams(<<43, 36, 3, 3, 2, 8, 1, 1, 11>>, Undefined,
                                   Undefined, Undefined, Undefined),
   brainpoolP512r1 |-> CurveParams(<<43, 36, 3, 3, 2, 8, 1, 1, 13>>, Undefined,
                                   Undefined, Undefined, Undefined)]

CurveNames == DOMAIN curves

\* enums.curve: every curve name and the hexadecimal form of every curve OID
\* is a key, and its value is the curve name
enumsCurve ==
  [key \in CurveNames \cup { hexstrdump(curves[n].oid) : n \in CurveNames } |->
     IF key \in CurveNames THEN key
     ELSE CHOOSE n \in CurveNames : hexstrdump(curves[n].oid) = key]

\* enums.curve[key] as a condition: false when there is no such key
enumsCurveHas(key) == key \in DOMAIN enumsCurve

\* enums.write(enums.curve, e)
enumsWriteCurve(e) ==
  IF enumsCurveHas(e) THEN [error |-> "none", value |-> enumsCurve[e]]
  ELSE Throw("Invalid enum value.")

\* function Curve(name, params)
Curve(name, params) ==
  IF params.keyType \notin {enumsPublicKey.eddsa, enumsPublicKey.ecdsa}
    THEN Throw("Unknown elliptic key type;")
  ELSE [error |-> "none", keyType |-> params.keyType, name |-> name,
        oid |-> curves[name].oid, hash |-> params.hash, cipher |-> params.cipher,
        payloadSize |-> curves[name].payloadSize]

\* The argument of get: an OID object, a name, or the binary string of an OID.
OIDObject(bytes) == [type |-> "OID", bytes |-> bytes, text |-> ""]
NameString(text) == [type |-> "name", bytes |-> <<>>, text |-> text]
BinaryString(bytes) == [type |-> "binary", bytes |-> bytes, text |-> ""]

\* function get(oid_or_name)
get(oid_or_name) ==
  IF oid_or_name.type = "OID" /\ enumsCurveHas(hexstrdump(oid_or_name.bytes))
    THEN Curve(enumsCurve[hexstrdump(oid_or_name.bytes)],
               curves[enumsCurve[hexstrdump(oid_or_name.bytes)]])
  ELSE IF oid_or_name.type = "name" /\ enumsCurveHas(oid_or_name.text)
    THEN Curve(enumsCurve[oid_or_name.text], curves[enumsCurve[oid_or_name.text]])
  ELSE IF oid_or_name.type = "binary" /\ enumsCurveHas(hexstrdump(oid_or_name.bytes))
    THEN Curve(enumsCurve[hexstrdump(oid_or_name.bytes)],
               curves[enumsCurve[hexstrdump(oid_or_name.bytes)]])
  ELSE Throw("Not valid curve")

\* async function generate(curve) of curves.js: the key pair is fresh
ellipticGenerated(curve) ==
  IF curve.error # "none" THEN curve
  ELSE [error |-> "none", oid |-> curve.oid, hash |-> curve.hash, cipher |-> curve.cipher]

ellipticGenerate(curve) == ellipticGenerated(get(curve))

\* function getPreferredHashAlgo(oid) of curves.js
ellipticGetPreferredHashAlgo(oid) ==
  IF ~enumsCurveHas(hexstrdump(oid.bytes)) THEN Throw("Invalid enum value.")
  ELSE [error |-> "none", hash |-> curves[enumsCurve[hexstrdump(oid.bytes)]].hash]

\* function constructParams(types, data): one parameter of each type
constructParams(types, data) ==
  [i \in 1..Len(types) |->
     [type |-> types[i],
      data |-> IF i <= Len(data) THEN data[i] ELSE <<>>]]

gpTypes(pub, priv) ==
  IF pub.error # "none" THEN pub
  ELSE IF priv.error # "none" THEN priv
  ELSE Types(pub.types \o priv.types)

gpElliptic(algo, types, keyObject) ==
  IF keyObject.error # "none" THEN keyObject
  ELSE [error |-> "none",
        params |-> IF algo = "ecdh"
                     THEN constructParams(types, <<keyObject.oid, <<"Q">>,
                                                   <<keyObject.hash, keyObject.cipher>>, <<"d">>>>)
                     ELSE constructParams(types, <<keyObject.oid, <<"Q">>, <<"d">>>>)]

gpSwitch(algo, t, bits, curve) ==
  IF t.error # "none" THEN t
  ELSE CASE algo \in {"rsa_encrypt", "rsa_encrypt_sign", "rsa_sign"} ->
              [error |-> "none",
               params |-> constructParams(t.types, <<<<"n">>, <<"ee">>, <<"d">>, <<"p">>, <<"q">>, <<"u">>>>)]
         [] algo \in {"ecdsa", "eddsa", "ecdh"} ->
              gpElliptic(algo, t.types, ellipticGenerate(curve))
         [] OTHER -> Throw("Unsupported algorithm for key generation.")

\* generateParams(algo, bits, curve)
generateParams(algo, bits, curve) ==
  gpSwitch(algo, gpTypes(getPubKeyParamTypes(algo), getPrivKeyParamTypes(algo)), bits, curve)

(***************************************************************************)
(* The registry as a state machine: each action is one call, and `last`    *)
(* holds the call and what it returned.                                    *)
(***************************************************************************)
AlgorithmNames == (DOMAIN enumsPublicKey) \cup {"unknown"}

OIDs == { curves[n].oid : n \in CurveNames } \cup { <<43, 36>> }

CurveArguments ==
  { NameString(n) : n \in CurveNames \cup {"nocurve"} }
    \cup { OIDObject(b) : b \in OIDs } \cup { BinaryString(b) : b \in OIDs }

CryptoInit ==
  /\ config = DefaultConfig
  /\ packetlist = <<>>
  /\ keys = EmptyFn /\ users = EmptyFn /\ subKeys = EmptyFn /\ sigs = EmptyFn
  /\ verified = EmptyFn /\ revoked = EmptyFn
  /\ now = 0
  /\ last = [op |-> "init"]

CryptoUnchanged == UNCHANGED <<keys, users, subKeys, sigs, verified, revoked, now, packetlist, config>>

GetPrivKeyParamTypes ==
  \E algo \in AlgorithmNames :
     /\ last' = [op |-> "getPrivKeyParamTypes", args |-> <<algo>>,
                 result |-> getPrivKeyParamTypes(algo)]
     /\ CryptoUnchanged

GetPubKeyParamTypes ==
  \E algo \in AlgorithmNames :
     /\ last' = [op |-> "getPubKeyParamTypes", args |-> <<algo>>,
                 result |-> getPubKeyParamTypes(algo)]
     /\ CryptoUnchanged

GetEncSessionKeyParamTypes ==
  \E algo \in AlgorithmNames :
     /\ last' = [op |-> "getEncSessionKeyParamTypes", args |-> <<algo>>,
                 result |-> getEncSessionKeyParamTypes(algo)]
     /\ CryptoUnchanged

GenerateParams ==
  \E algo \in AlgorithmNames, curve \in CurveArguments :
     /\ last' = [op |-> "generateParams", args |-> <<algo, curve>>,
                 result |-> generateParams(algo, 2048, curve)]
     /\ CryptoUnchanged

Get ==
  \E curve \in CurveArguments :
     /\ last' = [op |-> "get", args |-> <<curve>>, result |-> get(curve)]
     /\ CryptoUnchanged

EllipticGenerate ==
  \E curve \in CurveArguments :
     /\ last' = [op |-> "generate", args |-> <<curve>>, result |-> ellipticGenerate(curve)]
     /\ CryptoUnchanged

EllipticGetPreferredHashAlgo ==
  \E b \in OIDs :
     /\ last' = [op |-> "getPreferredHashAlgo", args |-> <<OIDObject(b)>>,
                 result |-> ellipticGetPreferredHashAlgo(OIDObject(b))]
     /\ CryptoUnchanged

CryptoNext ==
  \/ GetPrivKeyParamTypes
  \/ GetPubKeyParamTypes
  \/ GetEncSessionKeyParamTypes
  \/ GenerateParams
  \/ Get
  \/ EllipticGenerate
  \/ EllipticGetPreferredHashAlgo

SpecCrypto == CryptoInit /\ [][CryptoNext]_vars

(***************************************************************************)
(* Properties of the dispatch and of the registry.                         *)
(***************************************************************************)
RsaVariants == {"rsa_encrypt", "rsa_encrypt_sign", "rsa_sign"}

Mpis(n) == [i \in 1..n |-> type_mpi]

\* the published public shape of an algorithm
PublicShape(algo) ==
  CASE algo \in RsaVariants -> Mpis(2)
    [] algo = "elgamal" -> Mpis(3)
    [] algo = "dsa" -> Mpis(4)
    [] algo \in {"ecdsa", "eddsa"} -> <<type_oid, type_mpi>>
    [] algo = "ecdh" -> <<type_oid, type_mpi, type_kdf_params>>
    [] OTHER -> <<>>

\* the published private shape
PrivateShape(algo) == IF algo \in RsaVariants THEN Mpis(4) ELSE Mpis(1)

\* the published session-key shape
SessionKeyShape(algo) ==
  CASE algo \in RsaVariants -> Mpis(1)
    [] algo = "elgamal" -> Mpis(2)
    [] algo = "ecdh" -> <<type_mpi, type_ecdh_symkey>>
    [] OTHER -> <<>>

IsUnknownAlgorithm(result) == result.error \in {"Unknown algorithm", "Unknown algorithm."}

\* the call returned the shape when the algorithm is in the table, and raised otherwise
Dispatched(result, inTable, shape) ==
  IF inTable THEN result.error = "none" /\ result.types = shape
  ELSE IsUnknownAlgorithm(result)

\* the three dispatches follow the table, `encrypting` being the algorithms
\* that have a session-key shape
DispatchTable(encrypting) ==
  /\ last.op = "getPubKeyParamTypes" =>
       Dispatched(last.result, last.args[1] \in DOMAIN enumsPublicKey, PublicShape(last.args[1]))
  /\ last.op = "getPrivKeyParamTypes" =>
       Dispatched(last.result, last.args[1] \in DOMAIN enumsPublicKey, PrivateShape(last.args[1]))
  /\ last.op = "getEncSessionKeyParamTypes" =>
       Dispatched(last.result, last.args[1] \in encrypting, SessionKeyShape(last.args[1]))

\* C17 as stated: every dispatch returns the published shape, the session-key
\* shape being [mpi] for rsa_encrypt, rsa_encrypt_sign and rsa_sign, and an
\* algorithm outside the table raises an unknown-algorithm error.
C17_DispatchTable == DispatchTable(RsaVariants \cup {"elgamal", "ecdh"})

\* C17 amended: the same, except that the session-key shape [mpi] is that of
\* rsa_encrypt and rsa_encrypt_sign only; rsa_sign has no session-key shape
\* and raises the unknown-algorithm error, as dsa, ecdsa and eddsa do.
C17_DispatchTableEncrypting ==
  DispatchTable({"rsa_encrypt", "rsa_encrypt_sign", "elgamal", "ecdh"})

\* the session-key shape of rsa_sign was asked for, and the call raised
C17_Witness ==
  /\ last.op = "getEncSessionKeyParamTypes"
  /\ last.args[1] = "rsa_sign"
  /\ IsUnknownAlgorithm(last.result)

\* the argument names one of the nine curves, by name or by OID
SupportedCurve(arg) ==
  \/ arg.type = "name" /\ arg.text \in CurveNames
  \/ arg.type \in {"OID", "binary"} /\ arg.bytes \in { curves[n].oid : n \in CurveNames }

\* the curve carries its OID, a key category, a preferred hash, a preferred
\* cipher and a payload size
Complete(curve) ==
  /\ curve.oid # <<>>
  /\ curve.keyType # Undefined
  /\ curve.hash # Undefined
  /\ curve.cipher # Undefined
  /\ curve.payloadSize # Undefined

\* C18: get resolves each of the nine curves, by name or by OID, without
\* error, to a curve that carries OID, key category, preferred hash,
\* preferred cipher and payload size.
C18_CurvesResolve ==
  (last.op = "get" /\ SupportedCurve(last.args[1])) =>
     (last.result.error = "none" /\ Complete(last.result))

(***************************************************************************)
(* Generation and reformatting: generate, reformat and wrapKeyObject.      *)
(* An option that is not given is 0, the empty string or the empty list.   *)
(***************************************************************************)
\* enums.read(enums.publicKey, code)
enumsReadPublicKey(code) == CHOOSE n \in DOMAIN enumsPublicKey : enumsPublicKey[n] = code

\* crypto.hash.getHashByteLength
getHashByteLength(algo) ==
  CASE algo = enumsHash.md5 -> 16
    [] algo = enumsHash.sha1 -> 20
    [] algo = enumsHash.ripemd -> 20
    [] algo = enumsHash.sha256 -> 32
    [] algo = enumsHash.sha384 -> 48
    [] algo = enumsHash.sha512 -> 64
    [] algo = enumsHash.sha224 -> 28

\* config.prefer_hash_algorithm
prefer_hash_algorithm == enumsHash.sha256

\* getPreferredHashAlgo(key) for a key packet
getPreferredHashAlgo(key) ==
  LET pref_algo == IF key.algorithm \in {"ecdh", "ecdsa", "eddsa"}
                     THEN ellipticGetPreferredHashAlgo(OIDObject(key.params[1].data)).hash
                     ELSE prefer_hash_algorithm
  IN IF getHashByteLength(prefer_hash_algorithm) <= getHashByteLength(pref_algo)
       THEN pref_algo ELSE prefer_hash_algorithm

\* keyPacket.generate(numBits, curve): the parameters are those of
\* crypto.generateParams for the algorithm of the packet
packetGenerate(keyPacket, numBits, curve, generated) ==
  IF generated.error # "none" THEN generated
  ELSE [error |-> "none",
        packet |-> [params |-> generated.params, isDecrypted |-> TRUE, encrypted |-> FALSE]
                     @@ keyPacket]

\* new packet.SecretKey() / new packet.SecretSubkey(), created at `date`
NewSecretPacket(tag, fp, algorithm, date) == KeyPacket(tag, fp, algorithm, 4, date, 0)

\* function generateSecretKey(): the options as it leaves them, the call of
\* the packet's generate and its outcome
MutGenerateSecretKey(options, date) ==
  [options |-> options,
   call |-> [algorithm |-> enumsReadPublicKey(options.keyType), curve |-> options.curve],
   r |-> packetGenerate(NewSecretPacket("secretKey", "A", enumsReadPublicKey(options.keyType), date),
                        options.numBits, options.curve,
                        generateParams(enumsReadPublicKey(options.keyType), options.numBits,
                                       NameString(options.curve)))]

generateSecretKey(options, date) ==
  LET curve == IF options.curve = enumsCurve["curve25519"] THEN enumsCurve["ed25519"]
               ELSE options.curve
  IN [options |-> [options EXCEPT !.curve = curve],
      call |-> [algorithm |-> enumsReadPublicKey(options.keyType), curve |-> curve],
      r |-> packetGenerate(NewSecretPacket("secretKey", "A", enumsReadPublicKey(options.keyType), date),
                           options.numBits, curve,
                           generateParams(enumsReadPublicKey(options.keyType), options.numBits,
                                          NameString(curve)))]

\* function generateSecretSubkey()
generateSecretSubkey(options, date) ==
  LET curve == IF options.curve = enumsCurve["ed25519"] THEN enumsCurve["curve25519"]
               ELSE options.curve
  IN [options |-> [options EXCEPT !.curve = curve],
      call |-> [algorithm |-> enumsReadPublicKey(options.subkeyType), curve |-> curve],
      r |-> packetGenerate(NewSecretPacket("secretSubkey", "S", enumsReadPublicKey(options.subkeyType), date),
                           options.numBits, curve,
                           generateParams(enumsReadPublicKey(options.subkeyType), options.numBits,
                                          NameString(curve)))]

\* signaturePacket.sign(key, data): the key must hold its private parameters
\* and its algorithm must be one that signs
signThrows(key) ==
  \/ ~key.isDecrypted
  \/ key.algorithm \notin {"rsa_encrypt_sign", "rsa_encrypt", "rsa_sign", "dsa", "ecdsa", "eddsa"}

\* keyPacket.encrypt(passphrase) when a passphrase is given
wkoEncrypt(keyPacket, options) ==
  IF options.passphrase # "" /\ keyPacket # NoPacket
    THEN [keyPacket EXCEPT !.encrypted = TRUE] ELSE keyPacket

\* keyPacket.clearPrivateParams() unless options.unlocked
wkoClear(keyPacket, options) ==
  IF ~options.unlocked /\ keyPacket # NoPacket
    THEN [keyPacket EXCEPT !.isDecrypted = FALSE] ELSE keyPacket

\* a signature packet made by wrapKeyObject and signed by the primary key
wkoSignature(id, type, secretKeyPacket, hashKey, options, date) ==
  [publicKeyAlgorithm |-> options.keyType, hashAlgorithm |-> getPreferredHashAlgo(hashKey)]
    @@ [SignaturePacket(id, id, type, getKeyId(secretKeyPacket)) EXCEPT
          !.created = date,
          !.keyNeverExpires = IF options.keyExpirationTime > 0 THEN "false" ELSE @,
          !.keyExpirationTime = IF options.keyExpirationTime > 0
                                  THEN options.keyExpirationTime ELSE @]

\* the self-certification of the user id number `index` (from 0)
wkoCertification(base, index, secretKeyPacket, options, date) ==
  [wkoSignature(base + index + 1, "cert_generic", secretKeyPacket, secretKeyPacket, options, date)
     EXCEPT !.keyFlags = <<enumsKeyFlags.certify_keys + enumsKeyFlags.sign_data>>,
            !.preferredSymmetricAlgorithms =
                <<enumsSymmetric.aes256, enumsSymmetric.aes128, enumsSymmetric.aes192,
                  enumsSymmetric.cast5, enumsSymmetric.tripledes>>,
            !.isPrimaryUserID = IF index = 0 THEN 1 ELSE @]

\* the packets of the user ids: each user id packet and its certification
RECURSIVE wkoUsers(_, _, _, _, _)
wkoUsers(base, index, secretKeyPacket, options, date) ==
  IF index >= Len(options.userIds) THEN <<>>
  ELSE <<UserIdPacket(options.userIds[index + 1]),
         wkoCertification(base, index, secretKeyPacket, options, date)>>
         \o wkoUsers(base, index + 1, secretKeyPacket, options, date)

\* the subkey packet and its binding signature
wkoSubkey(base, secretKeyPacket, secretSubkeyPacket, options, date) ==
  IF secretSubkeyPacket = NoPacket THEN <<>>
  ELSE <<wkoClear(secretSubkeyPacket, options),
         [wkoSignature(base + Len(options.userIds) + 1, "subkey_binding", secretKeyPacket,
                       secretSubkeyPacket, options, date)
            EXCEPT !.keyFlags = <<enumsKeyFlags.encrypt_communication
                                    + enumsKeyFlags.encrypt_storage>>]>>

\* the packet list that wrapKeyObject assembles, the packets being as they
\* are when it returns
wkoPacketlist(base, secretKeyPacket, secretSubkeyPacket, options, date) ==
  <<wkoClear(secretKeyPacket, options)>>
    \o wkoUsers(base, 0, secretKeyPacket, options, date)
    \o wkoSubkey(base, secretKeyPacket, secretSubkeyPacket, options, date)

\* a signature is made: there is a user id or a subkey
wkoSigns(secretSubkeyPacket, options) ==
  Len(options.userIds) > 0 \/ secretSubkeyPacket # NoPacket

\* async function wrapKeyObject(secretKeyPacket, secretSubkeyPacket, options):
\* the new Key is built in `slot`, its signatures are the objects base+1, ...
wrapKeyObject(m, slot, base, secretKeyPacket, secretSubkeyPacket, options, date) ==
  IF wkoSigns(secretSubkeyPacket, options) /\ signThrows(secretKeyPacket)
    THEN [m |-> m, error |-> "Private key is not decrypted."]
  ELSE Key(m, slot, wkoPacketlist(base, wkoEncrypt(secretKeyPacket, options),
                                  wkoEncrypt(secretSubkeyPacket, options), options, date))

\* generate, lines 1093-1108: the algorithms from the curve or from numBits
genResolve(options) ==
  IF options.curve # ""
    THEN IF enumsWriteCurve(options.curve).error # "none" THEN Throw("Not valid curve.")
         ELSE [error |-> "none",
               options |-> [options EXCEPT
                 !.curve = enumsWriteCurve(options.curve).value,
                 !.keyType = IF @ # 0 THEN @
                             ELSE IF enumsWriteCurve(options.curve).value
                                       \in {enumsCurve["ed25519"], enumsCurve["curve25519"]}
                               THEN enumsPublicKey.eddsa ELSE enumsPublicKey.ecdsa,
                 !.subkeyType = IF @ # 0 THEN @ ELSE enumsPublicKey.ecdh]]
  ELSE IF options.numBits # 0
    THEN [error |-> "none",
          options |-> [options EXCEPT
            !.keyType = IF @ # 0 THEN @ ELSE enumsPublicKey.rsa_encrypt_sign,
            !.subkeyType = IF @ # 0 THEN @ ELSE enumsPublicKey.rsa_encrypt_sign]]
  ELSE Throw("Key type not specified.")

\* generate, lines 1110-1127: the supported algorithms, unlocked
genSupported(r) ==
  IF r.error # "none" THEN r
  ELSE IF r.options.keyType \notin {enumsPublicKey.rsa_encrypt_sign, enumsPublicKey.ecdsa,
                                    enumsPublicKey.eddsa}
    THEN Throw("Unsupported key type")
  ELSE IF r.options.subkeyType \notin {enumsPublicKey.rsa_encrypt_sign, enumsPublicKey.ecdh}
    THEN Throw("Unsupported subkey type")
  ELSE [r EXCEPT !.options.unlocked = IF r.options.passphrase = "" THEN TRUE ELSE @]

\* the calls that generate made to the packets' generate
NoCalls == <<>>

\* Promise.all([generateSecretKey(), generateSecretSubkey()]).then(wrapKeyObject)
genWrap(m, slot, base, k, s, date) ==
  IF k.r.error # "none" THEN [m |-> m, error |-> k.r.error, calls |-> <<k.call, s.call>>]
  ELSE IF s.r.error # "none" THEN [m |-> m, error |-> s.r.error, calls |-> <<k.call, s.call>>]
  ELSE [calls |-> <<k.call, s.call>>]
         @@ wrapKeyObject(m, slot, base, k.r.packet, s.r.packet, s.options, date)

genSubkey(m, slot, base, k, date) ==
  genWrap(m, slot, base, k, generateSecretSubkey(k.options, date), date)

genKeys(m, slot, base, r, date) ==
  IF r.error # "none" THEN [m |-> m, error |-> r.error, calls |-> NoCalls]
  ELSE genSubkey(m, slot, base, generateSecretKey(r.options, date), date)

\* generate(options): [m, error, calls], the new Key in `slot`
generate(m, slot, base, options, date) ==
  genKeys(m, slot, base, genSupported(genResolve(options)), date)

\* Key.prototype.getKeyPackets(): the primary key packet and the subkey packets
getKeyPackets(m, slot) ==
  <<m.keys[slot].primaryKey>>
    \o [i \in 1..Len(m.keys[slot].subKeys) |-> m.subKeys[m.keys[slot].subKeys[i]].subKey]

\* keyPacket.isDecrypted as a condition: a public packet has no such property
IsDecrypted(keyPacket) ==
  keyPacket.tag \in {"secretKey", "secretSubkey"} /\ keyPacket.isDecrypted

\* reformat, lines 1172-1179: the try block.  decrypt() is called without a
\* passphrase; on a locked packet it throws or returns false (`outcome`), and
\* what it returns is not looked at
refDecrypt(m, privateKey, outcome) ==
  IF \A i \in 1..Len(getKeyPackets(m, privateKey)) : IsDecrypted(getKeyPackets(m, privateKey)[i])
    THEN "none"
  ELSE IF ~isPrivate(m.keys[privateKey]) \/ outcome = "throws" THEN "Key not decrypted"
  ELSE "none"

\* the last packet of the list with the tag, as the loop of lines 1188-1196 leaves it
RECURSIVE LastWithTag(_, _, _)
LastWithTag(pl, tag, i) ==
  IF i = 0 THEN NoPacket
  ELSE IF pl[i].tag = tag THEN pl[i]
  ELSE LastWithTag(pl, tag, i - 1)

\* options.keyType = secretKeyPacket.algorithm, options.subkeyType = secretSubkeyPacket.algorithm
refOptions(options, secretKeyPacket, secretSubkeyPacket) ==
  [options EXCEPT
     !.unlocked = IF options.passphrase = "" THEN TRUE ELSE @,
     !.keyType = IF secretKeyPacket # NoPacket THEN secretKeyPacket.algorithm ELSE @,
     !.subkeyType = IF secretSubkeyPacket # NoPacket THEN secretSubkeyPacket.algorithm ELSE @]

\* the key packets are those of options.privateKey: what wrapKeyObject does
\* to them shows in that key
refShare(m, privateKey, secretKeyPacket, secretSubkeyPacket) ==
  [m EXCEPT !.keys[privateKey].primaryKey = secretKeyPacket,
            !.subKeys = IF secretSubkeyPacket = NoPacket THEN @
                        ELSE [@ EXCEPT ![<<privateKey, Len(m.keys[privateKey].subKeys)>>].subKey =
                                         secretSubkeyPacket]]

refShared(w, privateKey, secretKeyPacket, secretSubkeyPacket, options) ==
  IF wkoSigns(secretSubkeyPacket, options) /\ signThrows(secretKeyPacket)
    THEN [m |-> refShare(w.m, privateKey, wkoEncrypt(secretKeyPacket, options),
                         wkoEncrypt(secretSubkeyPacket, options)),
          error |-> w.error]
  ELSE [m |-> refShare(w.m, privateKey, wkoClear(wkoEncrypt(secretKeyPacket, options), options),
                       wkoClear(wkoEncrypt(secretSubkeyPacket, options), options)),
        error |-> w.error]

refWrap(m, slot, base, privateKey, secretKeyPacket, secretSubkeyPacket, options, date) ==
  IF secretKeyPacket = NoPacket
    THEN [m |-> m, error |-> "Key does not contain a secret key packet"]
  ELSE refShared(wrapKeyObject(m, slot, base, secretKeyPacket, secretSubkeyPacket,
                               refOptions(options, secretKeyPacket, secretSubkeyPacket), date),
                 privateKey, secretKeyPacket, secretSubkeyPacket,
                 refOptions(options, secretKeyPacket, secretSubkeyPacket))

refPackets(m, slot, base, privateKey, packets, options, date) ==
  refWrap(m, slot, base, privateKey, LastWithTag(packets, "secretKey", Len(packets)),
          LastWithTag(packets, "secretSubkey", Len(packets)), options, date)

\* reformat(options): [m, error], the new Key in `slot`
reformat(m, slot, base, privateKey, options, date, outcome) ==
  IF (IF options.keyType # 0 THEN options.keyType ELSE enumsPublicKey.rsa_encrypt_sign)
       # enumsPublicKey.rsa_encrypt_sign
    THEN [m |-> m, error |-> "Only RSA Encrypt or Sign supported"]
  ELSE IF refDecrypt(m, privateKey, outcome) # "none"
    THEN [m |-> m, error |-> refDecrypt(m, privateKey, outcome)]
  ELSE refPackets(m, slot, base, privateKey, toPacketlist(m, privateKey), options, date)

(***************************************************************************)
(* Generation as a state machine: a key is generated, made public or not,  *)
(* and reformatted.                                                        *)
(***************************************************************************)
GeneratedSlot == 1
ReformattedSlot == 2

\* the signatures of the generated key are the objects 1..3, those of the
\* reformatted key 4..6
MaxUserIds == 2

UserIdNames == <<"alice", "bob", "carol", "dave">>

\* options.userIds: none, one or several user ids
UserIdLists == { SubSeq(UserIdNames, 1, n) : n \in 0..MaxUserIds }

GenerateCurves == {"", "ed25519", "curve25519", "p256", "secp256k1", "brainpoolP256r1", "nocurve"}

\* an RSA key type is asked for together with numBits
GenerateInputs ==
  { o \in [curve : GenerateCurves, numBits : {0, 2048},
           keyType : {0, enumsPublicKey.rsa_encrypt_sign, enumsPublicKey.rsa_sign,
                      enumsPublicKey.ecdsa, enumsPublicKey.eddsa},
           subkeyType : {0, enumsPublicKey.rsa_encrypt_sign, enumsPublicKey.rsa_encrypt,
                         enumsPublicKey.ecdh},
           userIds : UserIdLists,
           passphrase : {"", "pw"}, unlocked : BOOLEAN, keyExpirationTime : {0, 1}] :
      /\ o.numBits = 0 => /\ o.keyType # enumsPublicKey.rsa_encrypt_sign
                          /\ o.subkeyType # enumsPublicKey.rsa_encrypt_sign
      /\ o.passphrase = "" => ~o.unlocked }

ReformatInputs ==
  [keyType : {0, enumsPublicKey.rsa_encrypt_sign, enumsPublicKey.ecdsa},
   userIds : {<<>>, <<"erin">>}, passphrase : {"", "pw"}, unlocked : BOOLEAN,
   keyExpirationTime : {0}]

GenerateInit ==
  /\ config = DefaultConfig
  /\ packetlist = <<>>
  /\ keys = EmptyFn /\ users = EmptyFn /\ subKeys = EmptyFn /\ sigs = EmptyFn
  /\ verified = AllFalse(1..(2 * (MaxUserIds + 1)))
  /\ revoked = AllFalse(1..(2 * (MaxUserIds + 1)))
  /\ now = 1
  /\ last = [op |-> "init"]

Generated(options, x) ==
  /\ SetMem(x.m)
  /\ last' = [op |-> "generate", options |-> options, error |-> x.error, calls |-> x.calls]
  /\ UNCHANGED <<now, packetlist, config>>

Generate ==
  /\ last.op = "init"
  /\ \E options \in GenerateInputs :
       Generated(options, generate(Mem, GeneratedSlot, 0, options, now))

MadePublic(x) ==
  /\ SetMem(x.m)
  /\ last' = [op |-> "toPublic", error |-> x.error, privateKey |-> PublicSlot]
  /\ UNCHANGED <<now, packetlist, config>>

GenerateToPublic ==
  /\ last.op = "generate" /\ last.error = "none"
  /\ MadePublic(toPublic(Mem, GeneratedSlot, PublicSlot))

Reformatted(privateKey, options, before, x) ==
  /\ SetMem(x.m)
  /\ last' = [op |-> "reformat", options |-> options, privateKey |-> privateKey,
              before |-> before, error |-> x.error]
  /\ UNCHANGED <<now, packetlist, config>>

ReformatOf(privateKey) ==
  \E options \in ReformatInputs, outcome \in {"throws", "false"} :
     Reformatted(privateKey, options, keys[privateKey].primaryKey,
                 reformat(Mem, ReformattedSlot, MaxUserIds + 1, privateKey, options, now, outcome))

Reformat ==
  \/ last.op = "generate" /\ last.error = "none" /\ ReformatOf(GeneratedSlot)
  \/ last.op = "toPublic" /\ last.error = "none" /\ ReformatOf(PublicSlot)

GenerateNext == Generate \/ GenerateToPublic \/ Reformat

SpecGenerate == GenerateInit /\ [][GenerateNext]_vars

(***************************************************************************)
(* Properties of generation and reformatting.                              *)
(***************************************************************************)
\* C15: reformat succeeds only for a private key whose primary key algorithm
\* is rsa_encrypt_sign; for any other key it fails with an error and returns
\* no key, whether or not options.keyType is given.
C15_ReformatOnlyRsa ==
  last.op = "reformat" =>
    /\ last.error = "none" =>
         (last.before.tag = "secretKey" /\ last.before.algorithm = "rsa_encrypt_sign")
    /\ last.error # "none" => ReformattedSlot \notin DOMAIN keys

\* neither options.keyType nor options.subkeyType is given
TypesNotGiven(options) == options.keyType = 0 /\ options.subkeyType = 0

\* the algorithm and the curve that the claim gives the primary key and the subkey
ResolvedFromCurve(options) ==
  IF options.curve \in {"ed25519", "curve25519"}
    THEN <<[algorithm |-> "eddsa", curve |-> "ed25519"],
           [algorithm |-> "ecdh", curve |-> "curve25519"]>>
  ELSE IF options.curve # ""
    THEN <<[algorithm |-> "ecdsa", curve |-> options.curve],
           [algorithm |-> "ecdh", curve |-> options.curve]>>
  ELSE <<[algorithm |-> "rsa_encrypt_sign", curve |-> ""],
         [algorithm |-> "rsa_encrypt_sign", curve |-> ""]>>

\* the key packet has the algorithm and, for a curve, the OID of the curve
GeneratedAs(keyPacket, call) ==
  /\ keyPacket.algorithm = call.algorithm
  /\ call.curve # "" => keyPacket.params[1].data = curves[call.curve].oid

\* the outcome of generate with the calls: the registry may refuse the
\* curve, and a key needs a user id
OutcomeOf(options, calls) ==
  IF \E i \in 1..2 : calls[i].curve # "" /\ get(NameString(calls[i].curve)).error # "none"
    THEN "Unknown elliptic key type;"
  ELSE IF options.userIds = <<>> THEN "InvalidKey"
  ELSE "none"

\* C16: with keyType and subkeyType not given, generate asks for an EdDSA
\* primary on ed25519 and an ECDH subkey on curve25519 when the curve is
\* ed25519 or curve25519, for an ECDSA primary and an ECDH subkey on the
\* curve for any other curve name, and for rsa_encrypt_sign twice when only
\* numBits is given; the key it returns has these key packets.
C16_ResolvedFromCurve ==
  (/\ last.op = "generate"
   /\ TypesNotGiven(last.options)
   /\ last.options.curve \in CurveNames \/ (last.options.curve = "" /\ last.options.numBits # 0))
  => /\ last.calls = ResolvedFromCurve(last.options)
     /\ last.error = OutcomeOf(last.options, last.calls)
     /\ last.error = "none" =>
          /\ GeneratedAs(keys[GeneratedSlot].primaryKey, last.calls[1])
          /\ Len(keys[GeneratedSlot].subKeys) = 1
          /\ GeneratedAs(subKeys[keys[GeneratedSlot].subKeys[1]].subKey, last.calls[2])

\* a key was generated from the name curve25519 alone
C16_Witness ==
  /\ last.op = "generate"
  /\ TypesNotGiven(last.options)
  /\ last.options.curve = "curve25519"
  /\ last.error = "none"
  /\ keys[GeneratedSlot].primaryKey.algorithm = "eddsa"
  /\ keys[GeneratedSlot].primaryKey.params[1].data = curves["ed25519"].oid

(***************************************************************************)
(* Properties of read and of the structure builder.                        *)
(***************************************************************************)
\* the positions of the part number i of the list: from its primary key
\* packet up to the next one
Segment(pl, i) ==
  LET keyIndex == indexOfTag(pl, 1)
  IN keyIndex[i]..(IF i < Len(keyIndex) THEN keyIndex[i + 1] - 1 ELSE Len(pl))

\* the part has what a Key needs besides its primary key packet: a user packet
ValidSegment(pl, i) == \E p \in Segment(pl, i) : IsUserTag(pl[p].tag)

\* the parts that form a Key, in the order of the list
RECURSIVE ValidSegments(_, _)
ValidSegments(pl, i) ==
  IF i > Len(indexOfTag(pl, 1)) THEN <<>>
  ELSE (IF ValidSegment(pl, i) THEN <<i>> ELSE <<>>) \o ValidSegments(pl, i + 1)

\* the Key in `slot` was made of the part number i: its primary key packet
\* is the first packet of the part, it has the users and the subkeys of the
\* part, and its signatures are packets of the part
KeyOfSegment(slot, pl, i) ==
  /\ keys[slot].primaryKey = pl[indexOfTag(pl, 1)[i]]
  /\ Len(keys[slot].users) = Cardinality({ p \in Segment(pl, i) : IsUserTag(pl[p].tag) })
  /\ Len(keys[slot].subKeys) = Cardinality({ p \in Segment(pl, i) : IsSubkeyTag(pl[p].tag) })
  /\ \A p \in 1..Len(toPacketlist(Mem, slot)) :
        toPacketlist(Mem, slot)[p].tag = "signature" =>
           toPacketlist(Mem, slot)[p].id \in Segment(pl, i)

\* C19: read returns; of a list with n >= 1 primary key packets it returns
\* the Key of every part that forms one, in the order of the list, and one
\* error for every other part, so that keys and errors are n together; of a
\* list with no primary key packet it returns no key and one error.
C19_ReadBatchesErrors ==
  last.op = "read" =>
    IF Len(indexOfTag(packetlist, 1)) = 0
      THEN last.n = 0 /\ Len(last.err) = 1 /\ DOMAIN keys = {}
    ELSE /\ last.n = Len(ValidSegments(packetlist, 1))
         /\ last.n + Len(last.err) = Len(indexOfTag(packetlist, 1))
         /\ DOMAIN keys = 1..last.n
         /\ \A j \in 1..last.n : KeyOfSegment(j, packetlist, ValidSegments(packetlist, 1)[j])

\* a list of which the first part forms no Key and a later part does
C19_Witness ==
  /\ last.op = "read"
  /\ Len(indexOfTag(packetlist, 1)) >= 2
  /\ ~ValidSegment(packetlist, 1)
  /\ last.n >= 1
  /\ Len(last.err) >= 1

\* the packet at position i follows a packet of the tags `after` with no
\* packet of the tags `before` in between
Follows(pl, i, after, before) ==
  \E u \in 1..(i - 1) :
     /\ pl[u].tag \in after
     /\ \A p \in (u + 1)..(i - 1) : pl[p].tag \notin before

UserTags == {"userid", "userAttribute"}
SubkeyTags == {"publicSubkey", "secretSubkey"}

\* the signature object `id` is in an array of a SubKey / of a User
AttachedToSubKey(id) ==
  \E ref \in DOMAIN subKeys :
     \E a \in {subKeys[ref].bindingSignatures, subKeys[ref].revocationSignatures} :
        \E k \in 1..Len(sigs[a]) : sigs[a][k].id = id

AttachedToUser(id) ==
  \E ref \in DOMAIN users :
     \E a \in {users[ref].selfCertifications, users[ref].otherCertifications,
               users[ref].revocationSignatures} :
        \E k \in 1..Len(sigs[a]) : sigs[a][k].id = id

\* a binding or revocation of a subkey that follows a user packet with no
\* subkey packet in between is attached to no subkey
SubkeySignatureAfterUserDropped ==
  (last.op = "Key" /\ last.n = 1) =>
    \A i \in 1..Len(packetlist) :
       (/\ packetlist[i].tag = "signature"
        /\ packetlist[i].signatureType \in {"subkey_binding", "subkey_revocation"}
        /\ Follows(packetlist, i, UserTags, SubkeyTags))
       => ~AttachedToSubKey(i)

\* a certification that follows a subkey packet with no user packet in
\* between is attached to no user
CertificationAfterSubkeyDropped ==
  (last.op = "Key" /\ last.n = 1) =>
    \A i \in 1..Len(packetlist) :
       (/\ packetlist[i].tag = "signature"
        /\ IsCert(packetlist[i].signatureType)
        /\ Follows(packetlist, i, SubkeyTags, UserTags))
       => ~AttachedToUser(i)

\* C20: the builder forgets the current subkey at every user packet and the
\* current user at every subkey packet: a subkey binding or revocation that
\* follows a user packet with no subkey packet in between is dropped, and so
\* is a certification that follows a subkey packet with no user packet in between.
C20_CursorsCleared ==
  SubkeySignatureAfterUserDropped /\ CertificationAfterSubkeyDropped

(***************************************************************************)
(* Users without a UserID packet in the primary-user selector.             *)
(***************************************************************************)
\* C21: whenever some UserID user has a self-certification that verifies, is
\* not revoked and is not expired at the date, getPrimaryUser returns a user,
\* wherever the user-attribute users sit in the users sequence.
C21_AttributeUsersSkipped ==
  (last.op = "getPrimaryUser" /\ Survivors(last.date) # {}) => last.result # NoUser

(***************************************************************************)
(* More merge properties: bindings by issuer, the checked collections,     *)
(* completion orders, the source key and the outcome.                      *)
(***************************************************************************)
\* no two signatures of the list have the same issuer
OnePerIssuer(q) ==
  \A i \in 1..Len(q), j \in 1..Len(q) :
    i # j => ~KeyIdEquals(q[i].issuerKeyId, q[j].issuerKeyId)

\* of a source binding a and a destination binding b of one issuer, the list
\* holds the later created and not the other
KeepsNewer(after, a, b) ==
  IF a.created > b.created
    THEN a.signature \in Bytes(after) /\ b.signature \notin Bytes(after)
  ELSE b.signature \in Bytes(after) /\ a.signature \notin Bytes(after)

\* the source subkey j passes subKey.verify and its binding a verifies and is
\* not expired, so that SubKey.prototype.update merges it
MergedBinding(j, a) ==
  /\ SubKeyVerify(Mem, keys[last.src].subKeys[j], keys[last.dst].primaryKey, now).r
       # keyStatus.invalid
  /\ a.good /\ ~isExpired(a, now)

\* C22: when a source binding signature and a destination binding signature
\* of the matching subkey share an issuer key-ID, after update the
\* destination holds the one with the later created time and not the other,
\* and so at most one binding signature per issuer.
C22_NewerBindingKept ==
  (last.op = "update" /\ last.result = "ok" /\ last.dst # last.src) =>
    \A i \in 1..Len(last.before.subKeys), j \in 1..Len(last.beforeSrc.subKeys) :
      LET d == last.before.subKeys[i]
          s == last.beforeSrc.subKeys[j]
          after == Content(Mem, last.dst).subKeys[i].bindingSignatures
      IN (/\ d.subKey.fingerprint = s.subKey.fingerprint
          /\ OnePerIssuer(d.bindingSignatures) /\ OnePerIssuer(s.bindingSignatures))
           => /\ OnePerIssuer(after)
              /\ \A a \in Range(s.bindingSignatures), b \in Range(d.bindingSignatures) :
                   (/\ KeyIdEquals(a.issuerKeyId, b.issuerKeyId)
                    /\ a.created # b.created
                    /\ MergedBinding(j, a))
                     => KeepsNewer(after, a, b)

\* the signature is not expired and verifies under the primary key
PassesCheck(sig, primaryKey) ==
  /\ ~isExpired(sig, now)
  /\ sig.good /\ KeyIdEquals(sig.issuerKeyId, getKeyId(primaryKey))

\* every signature of the list `after` that the list `before` did not hold
\* passes the check
AddedPass(before, after, primaryKey) ==
  \A s \in Range(after) : s.signature \notin Bytes(before) => PassesCheck(s, primaryKey)

\* the checked collections of the key, of the users and of the subkeys the
\* destination had before the update
CheckedAddedPass(before, after) ==
  /\ AddedPass(before.revocationSignatures, after.revocationSignatures, after.primaryKey)
  /\ \A i \in 1..Len(before.users) :
       /\ AddedPass(before.users[i].selfCertifications,
                    after.users[i].selfCertifications, after.primaryKey)
       /\ AddedPass(before.users[i].revocationSignatures,
                    after.users[i].revocationSignatures, after.primaryKey)
  /\ \A i \in 1..Len(before.subKeys) :
       /\ AddedPass(before.subKeys[i].bindingSignatures,
                    after.subKeys[i].bindingSignatures, after.primaryKey)
       /\ AddedPass(before.subKeys[i].revocationSignatures,
                    after.subKeys[i].revocationSignatures, after.primaryKey)

\* C23: update adds a source signature to a checked destination collection
\* only if it is not expired and passes the verification check against the
\* destination's primary key, whether the collection was empty or not.
C23_OnlyCheckedAdded ==
  last.op = "update" => CheckedAddedPass(last.before, Content(Mem, last.dst))

(***************************************************************************)
(* Key flags of the encryption selector.                                   *)
(***************************************************************************)
\* the signature carries keyFlags with encrypt_communication or encrypt_storage
EncryptFlags(signature) ==
  /\ signature.keyFlags # <<>>
  /\ \/ HasFlag(signature.keyFlags[1], enumsKeyFlags.encrypt_communication)
     \/ HasFlag(signature.keyFlags[1], enumsKeyFlags.encrypt_storage)

NoFlagsOrEncryptFlags(signature) == signature.keyFlags = <<>> \/ EncryptFlags(signature)

\* the signature that governs the packet returned: the primary user's
\* self-certification for the primary key, a verified binding signature of
\* the subkey for a subkey
Governed(Has(_)) ==
  IF last.result = keys[1].primaryKey
    THEN /\ getPrimaryUser(Mem, 1, last.date).r # NoUser
         /\ Has(getPrimaryUser(Mem, 1, last.date).r.selfCertification)
  ELSE \E i \in 1..Len(keys[1].subKeys) :
         /\ subKeys[keys[1].subKeys[i]].subKey = last.result
         /\ \E s \in Range(sigs[subKeys[keys[1].subKeys[i]].bindingSignatures]) :
              verified[s.id] /\ Has(s)

\* C24 as stated: getEncryptionKeyPacket returns a key packet only if its
\* governing signature carries keyFlags with the encrypt_communication bit or
\* the encrypt_storage bit set.
C24_EncryptFlagsSet ==
  (last.op = "getEncryptionKeyPacket" /\ last.result # NoPacket) => Governed(EncryptFlags)

\* C24 amended: getEncryptionKeyPacket returns a key packet only if its
\* governing signature carries no keyFlags at all, or keyFlags with the
\* encrypt_communication bit or the encrypt_storage bit set.
C24_EncryptFlagsSetOrAbsent ==
  (last.op = "getEncryptionKeyPacket" /\ last.result # NoPacket)
    => Governed(NoFlagsOrEncryptFlags)

\* a subkey whose only binding signature has no keyFlags was returned
C24_Witness ==
  /\ last.op = "getEncryptionKeyPacket"
  /\ last.result # NoPacket /\ last.result # keys[1].primaryKey
  /\ \A i \in 1..Len(keys[1].subKeys) :
       \A s \in Range(sigs[subKeys[keys[1].subKeys[i]].bindingSignatures]) : s.keyFlags = <<>>

(***************************************************************************)
(* Revocation of a signature: isDataRevoked is called on one               *)
(* self-certification of a key, at one date after another, under either    *)
(* setting of config.revocations_expire.                                   *)
(***************************************************************************)
MaxCalls == 2

\* a certification revocation: its issuer, when it was made, whether it
\* verifies and whether it expires a second after
RevocationChoices(id) ==
  { [Sig(id, "cert_revocation", issuer, created) EXCEPT
       !.good = good, !.expirationTime = IF expires THEN created + 1 ELSE Infinity] :
      issuer \in {"A", "X"}, created \in 1..2, good \in BOOLEAN, expires \in BOOLEAN }

RevokedPacketlists ==
  { <<PrimaryA, UserIdPacket("alice"), SelfCert(1, 1, 1, TRUE, Infinity), r>> :
      r \in RevocationChoices(2) }
  \cup
  { <<PrimaryA, UserIdPacket("alice"), SelfCert(1, 1, 1, TRUE, Infinity), r, q>> :
      r \in RevocationChoices(2), q \in RevocationChoices(3) }

RevokedDates == {NoDate} \cup (0..MaxDate)

RevokedInit ==
  /\ config \in [revocations_expire : BOOLEAN]
  /\ packetlist \in RevokedPacketlists
  /\ LET r == Key([EmptyMem EXCEPT !.verified = AllFalse(1..3), !.revoked = AllFalse(1..3)],
                  1, packetlist)
     IN /\ r.error = "none"
        /\ keys = r.m.keys /\ users = r.m.users /\ subKeys = r.m.subKeys /\ sigs = r.m.sigs
        /\ verified = r.m.verified /\ revoked = r.m.revoked
  /\ now = 0
  /\ last = [op |-> "Key", calls |-> 0]

\* the data, the candidate revocations and the target of the call: the user,
\* its revocation signatures and its self-certification
RevokedData == DataToVerify(keys[1].primaryKey, users[keys[1].users[1]].userId, NoPacket)
Revocations == sigs[users[keys[1].users[1]].revocationSignatures]
Target == sigs[users[keys[1].users[1]].selfCertifications][1]

IsDataRevoked ==
  /\ last.calls < MaxCalls
  /\ \E date \in RevokedDates :
       LET x == isDataRevoked(Mem, keys[1].primaryKey, RevokedData, Revocations, Target,
                              NoPacket, date)
       IN /\ SetMem(x.m)
          /\ last' = [op |-> "isDataRevoked", date |-> date, result |-> x.r,
                      calls |-> last.calls + 1]
          /\ UNCHANGED <<now, packetlist, config>>

RevokedNext == IsDataRevoked

SpecRevoked == RevokedInit /\ [][RevokedNext]_vars

\* the candidate revocation survives at the date: it is not skipped as
\* expired and it verifies
SurvivesAt(r, date) ==
  /\ ~(revocations_expire /\ isExpired(r, date))
  /\ verify(Mem, r, keys[1].primaryKey, RevokedData).r

\* C25: isDataRevoked called with a target signature returns true iff some
\* candidate revocation that survives at the date has the issuer of the
\* target, whatever calls with other dates were made on the signature before.
C25_RevokedIffSurvivor ==
  last.op = "isDataRevoked" =>
    (last.result <=> \E r \in Range(Revocations) :
                       /\ SurvivesAt(r, last.date)
                       /\ KeyIdEquals(r.issuerKeyId, Target.issuerKeyId))

(***************************************************************************)
(* Expiration-time queries: Key.prototype.getExpirationTime and            *)
(* SubKey.prototype.getExpirationTime.                                     *)
(***************************************************************************)
Null == -2                          \* the value null where a Date is expected

\* the loop of SubKey.prototype.getExpirationTime; highest starts undefined
RECURSIVE sgeLoop(_, _, _, _)
sgeLoop(subKey, bindingSignatures, highest, i) ==
  IF i > Len(bindingSignatures) THEN highest
  ELSE LET current == getExpirationTime(subKey, bindingSignatures[i])
       IN IF current = Null THEN Null
          ELSE sgeLoop(subKey, bindingSignatures,
                       IF highest = Undefined \/ current > highest THEN current ELSE highest,
                       i + 1)

SubKeyGetExpirationTime(m, ref) ==
  sgeLoop(m.subKeys[ref].subKey, m.sigs[m.subKeys[ref].bindingSignatures], Undefined, 1)

\* Key.prototype.getExpirationTime: [m, r]; pu is the outcome of getPrimaryUser()
kgePrimaryUser(pu, slot) ==
  [m |-> pu.m,
   r |-> IF pu.r = NoUser THEN Null
         ELSE getExpirationTime(pu.m.keys[slot].primaryKey, pu.r.selfCertification)]

KeyGetExpirationTime(m, slot, date) ==
  IF m.keys[slot].primaryKey.version = 3
    THEN [m |-> m, r |-> getExpirationTime(m.keys[slot].primaryKey, NoPacket)]
  ELSE IF m.keys[slot].primaryKey.version = 4
    THEN kgePrimaryUser(getPrimaryUser(m, slot, date), slot)
  ELSE [m |-> m, r |-> Undefined]

\* what the signature says of the expiry of the key: nothing, that it never
\* expires, or that it expires after some seconds
ExpiryChoices(sig) ==
  { sig, [sig EXCEPT !.keyNeverExpires = "true"] }
    \cup { KeyExpiring(sig, e) : e \in 1..2 }

ExpirationSubkeys ==
  {<<>>} \cup { <<SubkeyS>> }
    \cup { <<SubkeyS, b>> : b \in ExpiryChoices(Sig(3, "subkey_binding", "A", 1)) }
    \cup { <<SubkeyS, b, c>> : b \in ExpiryChoices(Sig(3, "subkey_binding", "A", 1)),
                               c \in ExpiryChoices(Sig(4, "subkey_binding", "A", 2)) }

ExpirationKeys ==
  { <<pk, UserIdPacket("alice")>> \o c \o s :
      pk \in { PrimaryA, KeyPacket("publicKey", "A", "rsa_encrypt_sign", 4, 2, 0),
               KeyPacket("publicKey", "A", "rsa_encrypt_sign", 3, 1, 1),
               KeyPacket("publicKey", "A", "rsa_encrypt_sign", 3, 1, 0) },
      c \in {<<>>} \cup { <<x>> : x \in ExpiryChoices(SelfCert(2, 1, 1, TRUE, Infinity)) },
      s \in ExpirationSubkeys }

ExpirationInit ==
  /\ config = DefaultConfig
  /\ packetlist \in ExpirationKeys
  /\ LET r == Key([EmptyMem EXCEPT !.verified = AllFalse(1..4), !.revoked = AllFalse(1..4)],
                  1, packetlist)
     IN /\ r.error = "none"
        /\ keys = r.m.keys /\ users = r.m.users /\ subKeys = r.m.subKeys /\ sigs = r.m.sigs
        /\ verified = r.m.verified /\ revoked = r.m.revoked
  /\ now \in 0..MaxDate
  /\ last = [op |-> "Key"]

GetExpirationTime ==
  /\ last.op = "Key"
  /\ LET x == KeyGetExpirationTime(Mem, 1, now)
     IN /\ SetMem(x.m)
        /\ last' = [op |-> "Key.getExpirationTime", result |-> x.r]
        /\ UNCHANGED <<now, packetlist, config>>

GetSubKeyExpirationTime ==
  /\ last.op = "Key"
  /\ \E i \in 1..Len(keys[1].subKeys) :
       /\ last' = [op |-> "SubKey.getExpirationTime", subKey |-> i,
                   result |-> SubKeyGetExpirationTime(Mem, keys[1].subKeys[i])]
       /\ UNCHANGED <<keys, users, subKeys, sigs, verified, revoked, now, packetlist, config>>

ExpirationNext == GetExpirationTime \/ GetSubKeyExpirationTime

SpecExpiration == ExpirationInit /\ [][ExpirationNext]_vars

\* the signature gives the key an expiration time
Expires(keyPacket, signature) ==
  \/ keyPacket.version = 3 /\ keyPacket.expirationTimeV3 # 0
  \/ keyPacket.version = 4 /\ signature # NoPacket /\ signature.keyNeverExpires = "false"

Maximum(S) == CHOOSE x \in S : \A y \in S : y <= x

\* the maximum expiration time over the binding signatures, or none as soon
\* as one of them asserts non-expiry
SubKeyExpirationTime(sk) ==
  IF \E s \in Range(sk.bindingSignatures) : ~Expires(sk.subKey, s) THEN Null
  ELSE Maximum({ getExpirationTime(sk.subKey, s) : s \in Range(sk.bindingSignatures) })

\* the primary key does not expire: its primary user's self-certification
\* gives it no expiration time
PrimaryKeyDoesNotExpire ==
  IF keys[1].primaryKey.version = 3 THEN ~Expires(keys[1].primaryKey, NoPacket)
  ELSE /\ getPrimaryUser(Mem, 1, now).r # NoUser
       /\ ~Expires(keys[1].primaryKey, getPrimaryUser(Mem, 1, now).r.selfCertification)

\* C26: SubKey.getExpirationTime returns the maximum expiration time over all
\* binding signatures, or none (null) as soon as any binding signature
\* asserts non-expiry, and Key.getExpirationTime returns null when the
\* primary key does not expire.
C26_NoneWhenNeverExpires ==
  /\ (/\ last.op = "SubKey.getExpirationTime"
      /\ Content(Mem, 1).subKeys[last.subKey].bindingSignatures # <<>>)
       => last.result = SubKeyExpirationTime(Content(Mem, 1).subKeys[last.subKey])
  /\ (last.op = "Key.getExpirationTime" /\ PrimaryKeyDoesNotExpire)
       => last.result = Null

(***************************************************************************)
(* getPreferredHashAlgo(key) for a full key and for a key packet.  A       *)
(* signature carries its preferredHashAlgorithms list or NoPreferences; an *)
(* elliptic key packet carries the OID of its curve as its first           *)
(* parameter.                                                              *)
(***************************************************************************)
\* the switch on the prototype and the algorithm of the key packet, and the
\* final comparison
MutGphPacket(key, hash_algo, pref_algo) ==
  IF getHashByteLength(hash_algo) <= getHashByteLength(pref_algo)
    THEN pref_algo ELSE hash_algo

gphPacket(key, hash_algo, pref_algo) ==
  LET pref == IF key.algorithm \in {"ecdh", "ecdsa", "eddsa"}
                THEN ellipticGetPreferredHashAlgo(OIDObject(key.params[1].data)).hash
                ELSE pref_algo
  IN IF getHashByteLength(hash_algo) <= getHashByteLength(pref)
       THEN pref ELSE hash_algo

\* key = key.getSigningKeyPacket(undefined, null); Object.getPrototypeOf(null)
\* raises a TypeError
gphSigningKey(sk, hash_algo, pref_algo) ==
  IF sk.r = NoPacket THEN [m |-> sk.m, error |-> "TypeError", r |-> Undefined]
  ELSE [m |-> sk.m, error |-> "none", r |-> gphPacket(sk.r, hash_algo, pref_algo)]

\* the branch `key instanceof Key`; pu is the outcome of key.getPrimaryUser()
gphKey(pu, slot) ==
  IF pu.r # NoUser /\ pu.r.selfCertification.preferredHashAlgorithms # NoPreferences
    THEN LET pref_algo == pu.r.selfCertification.preferredHashAlgorithms[1]
         IN gphSigningKey(getSigningKeyPacket(pu.m, slot, NoKeyId, NoDate),
                          IF getHashByteLength(prefer_hash_algorithm)
                               <= getHashByteLength(pref_algo)
                            THEN pref_algo ELSE prefer_hash_algorithm,
                          pref_algo)
  ELSE gphSigningKey(getSigningKeyPacket(pu.m, slot, NoKeyId, NoDate),
                     prefer_hash_algorithm, prefer_hash_algorithm)

\* getPreferredHashAlgo(key) for the Key object in the slot, at time `date`
getPreferredHashAlgoOfKey(m, slot, date) == gphKey(getPrimaryUser(m, slot, date), slot)

\* the curves that have a preferred hash
HashCurves == { n \in CurveNames : curves[n].hash # Undefined }

EccPacket(tag, fp, alg, curve) ==
  [params |-> <<[type |-> "oid", data |-> curves[curve].oid]>>] @@ KeyPacket(tag, fp, alg, 4, 1, 0)

HashPrimaries ==
  { [params |-> <<>>] @@ KeyPacket("publicKey", "A", alg, 4, 1, 0) :
      alg \in {"rsa_encrypt_sign", "rsa_encrypt"} }
    \cup { EccPacket("publicKey", "A", alg, c) :
             alg \in {"ecdsa", "eddsa", "ecdh"}, c \in HashCurves }

HashCodes == {enumsHash.sha1, enumsHash.sha256, enumsHash.sha512}

HashLists == UNION { SeqsOfLen(HashCodes, len) : len \in 1..MaxPrefs }

HashCerts ==
  {<<>>} \cup { <<[preferredHashAlgorithms |-> prefs] @@ SelfCert(1, 1, 1, TRUE, Infinity)>> :
                  prefs \in HashLists \cup {NoPreferences} }

HashSubkeys ==
  {<<>>} \cup { <<EccPacket("publicSubkey", "S", "ecdsa", c), Sig(2, "subkey_binding", "A", 1)>> :
                  c \in {"p384", "p521"} }

HashKeys ==
  { <<pk, UserIdPacket("alice")>> \o c \o s :
      pk \in HashPrimaries, c \in HashCerts, s \in HashSubkeys }

HashInit ==
  /\ config = DefaultConfig
  /\ packetlist \in HashKeys
  /\ LET r == Key([EmptyMem EXCEPT !.verified = AllFalse(1..2), !.revoked = AllFalse(1..2)],
                  1, packetlist)
     IN /\ r.error = "none"
        /\ keys = r.m.keys /\ users = r.m.users /\ subKeys = r.m.subKeys /\ sigs = r.m.sigs
        /\ verified = r.m.verified /\ revoked = r.m.revoked
  /\ now = MaxDate
  /\ last = [op |-> "Key"]

\* getPreferredHashAlgo(key), key a Key object
GetPreferredHashAlgoOfKey ==
  /\ last.op = "Key"
  /\ LET x == getPreferredHashAlgoOfKey(Mem, 1, now)
     IN /\ SetMem(x.m)
        /\ last' = [op |-> "getPreferredHashAlgo", target |-> "Key", key |-> NoPacket,
                    error |-> x.error, result |-> x.r]
        /\ UNCHANGED <<now, packetlist, config>>

\* getPreferredHashAlgo(key), key the primary key packet or a subkey packet
GetPreferredHashAlgoOfPacket ==
  /\ last.op = "Key"
  /\ \E key \in {keys[1].primaryKey}
                  \cup { subKeys[keys[1].subKeys[i]].subKey : i \in 1..Len(keys[1].subKeys) } :
       /\ last' = [op |-> "getPreferredHashAlgo", target |-> "packet", key |-> key,
                   error |-> "none",
                   result |-> gphPacket(key, prefer_hash_algorithm, prefer_hash_algorithm)]
       /\ UNCHANGED <<keys, users, subKeys, sigs, verified, revoked, now, packetlist, config>>

HashNext == GetPreferredHashAlgoOfKey \/ GetPreferredHashAlgoOfPacket

SpecHash == HashInit /\ [][HashNext]_vars

\* the key packet the target resolves to: the signing key packet of a Key
ResolvedTarget ==
  IF last.target = "Key" THEN getSigningKeyPacket(Mem, 1, NoKeyId, NoDate).r
  ELSE last.key

IsEcc(key) == key.algorithm \in {"ecdsa", "eddsa", "ecdh"}

CurveOf(key) == CHOOSE n \in CurveNames : curves[n].oid = key.params[1].data

rkiAwaited(m, revocations, date) ==
  \E i \in 1..Len(revocations) :
    /\ ~(revocations_expire /\ isExpired(revocations[i], date))
    /\ ~m.verified[revocations[i].id]

\* SubKey.prototype.verify awaits the verification of a signature
svAwaits(m, ref, date) ==
  LET sk == m.subKeys[ref]
      bs == m.sigs[sk.bindingSignatures]
  IN /\ ~(sk.subKey.version = 3 /\ isDataExpired(sk.subKey, NoPacket, date))
     /\ \E i \in 1..Len(bs) :
          \/ ~m.verified[bs[i].id]
          \/ /\ ~m.revoked[bs[i].id]
             /\ rkiAwaited(m, m.sigs[sk.revocationSignatures], date)

\* the callbacks of verifyKeyPackets as they are launched on the memory m, x
\* being the outcome of the verifications
vkpPending(m, x, slot, date) ==
  [i \in 1..Len(m.keys[slot].subKeys) |->
     [packet |-> m.subKeys[m.keys[slot].subKeys[i]].subKey,
      ok |-> x.statuses[i] # NoStatus /\ Truthy(x.statuses[i]),
      fast |-> ~svAwaits(m, m.keys[slot].subKeys[i], date)]]

RECURSIVE vkpPushed(_, _)
vkpPushed(done, i) ==
  IF i > Len(done) THEN <<>>
  ELSE (IF done[i].ok THEN <<done[i].packet>> ELSE <<>>) \o vkpPushed(done, i + 1)

\* the packets of verifyKeyPackets: the primary key, then the subkey packets
\* in the order their callbacks resume
vkpCompleted(m, x, slot, keyId, date, order) ==
  [m |-> x.m,
   r |-> (IF Truthy(x.status) /\ MatchesKeyId(m.keys[slot].primaryKey, keyId)
            THEN <<m.keys[slot].primaryKey>> ELSE <<>>)
         \o vkpPushed(Completion(vkpPending(m, x, slot, date), order), 1)]

\* one self-certification in User.prototype.verify: rv is the outcome of the
\* revocation test
uvRevoked(rv, primaryKey, data, cert, date) ==
  IF rv.r THEN [m |-> rv.m, r |-> keyStatus.revoked]
  ELSE LET v == verifiedOrVerify(rv.m, cert, primaryKey, data)
       IN IF ~v.r THEN [m |-> v.m, r |-> keyStatus.invalid]
          ELSE IF isExpired(cert, date) THEN [m |-> v.m, r |-> keyStatus.expired]
          ELSE [m |-> v.m, r |-> keyStatus.valid]

uvCert(m, ref, primaryKey, cert, date) ==
  uvRevoked(IF m.revoked[cert.id] THEN [m |-> m, r |-> TRUE]
            ELSE UserIsRevoked(m, ref, primaryKey, cert, NoPacket, date),
            primaryKey,
            DataToVerify(primaryKey, UserPacketOf(m.users[ref]), NoPacket), cert, date)

\* [m, r]: r the statuses of the self-certifications from the j-th on
RECURSIVE uvCerts(_, _, _, _, _)
uvNext(c, ref, primaryKey, date, j) ==
  LET rest == uvCerts(c.m, ref, primaryKey, date, j + 1)
  IN [m |-> rest.m, r |-> <<c.r>> \o rest.r]

uvCerts(m, ref, primaryKey, date, j) ==
  IF j > Len(m.sigs[m.users[ref].selfCertifications]) THEN [m |-> m, r |-> <<>>]
  ELSE uvNext(uvCert(m, ref, primaryKey, m.sigs[m.users[ref].selfCertifications][j], date),
              ref, primaryKey, date, j)

uvResult(c) ==
  [m |-> c.m,
   r |-> IF \E i \in 1..Len(c.r) : c.r[i] = keyStatus.valid THEN keyStatus.valid
         ELSE c.r[Len(c.r)]]

\* User.prototype.verify(primaryKey), at time `date`
UserVerify(m, ref, primaryKey, date) ==
  IF Len(m.sigs[m.users[ref].selfCertifications]) = 0
    THEN [m |-> m, r |-> keyStatus.no_self_cert]
  ELSE uvResult(uvCerts(m, ref, primaryKey, date, 1))

\* User.prototype.verify awaits the verification of a signature
vauAwaits(m, ref, primaryKey, date) ==
  LET u == m.users[ref]
      cs == m.sigs[u.selfCertifications]
  IN \E j \in 1..Len(cs) :
       /\ ~m.revoked[cs[j].id]
       /\ \/ rkiAwaited(m, m.sigs[u.revocationSignatures], date)
          \/ /\ ~m.verified[cs[j].id]
             /\ ~UserIsRevoked(m, ref, primaryKey, cs[j], NoPacket, date).r

\* the callbacks of verifyAllUsers() from the i-th user on: [m, pending]
RECURSIVE vauUsers(_, _, _, _, _)
vauUser(m0, v, slot, date, i) ==
  LET rest == vauUsers(m0, v.m, slot, date, i + 1)
      ref == m0.keys[slot].users[i]
  IN [m |-> rest.m,
      pending |-> <<[user |-> m0.users[ref],
                     keyid |-> getKeyId(m0.keys[slot].primaryKey),
                     valid |-> v.r = keyStatus.valid,
                     fast |-> ~vauAwaits(m0, ref, m0.keys[slot].primaryKey, date)]>>
                  \o rest.pending]

vauUsers(m0, m, slot, date, i) ==
  IF i > Len(m.keys[slot].users) THEN [m |-> m, pending |-> <<>>]
  ELSE vauUser(m0, UserVerify(m, m.keys[slot].users[i], m.keys[slot].primaryKey, date),
               slot, date, i)

\* signatures.forEach(...) in the callbacks as they resume: user.userId.userid
\* raises a TypeError when the user has no UserID packet
vauResults(st, done) ==
  IF \E i \in 1..Len(done) : done[i].user.userId = NoPacket
    THEN [m |-> st.m, error |-> "TypeError", r |-> <<>>]
  ELSE [m |-> st.m, error |-> "none",
        r |-> [i \in 1..Len(done) |->
                 [userid |-> done[i].user.userId.userid, keyid |-> done[i].keyid,
                  valid |-> done[i].valid]]]

vauJoin(st, order) == vauResults(st, Completion(st.pending, order))

\* Key.prototype.verifyAllUsers() without keys
verifyAllUsers(m, slot, date, order) == vauJoin(vauUsers(m, m, slot, date, 1), order)

JoinSlots == {1, 2, 3}

Bob == <<UserIdPacket("bob"), SelfCert(9, 0, 1, TRUE, Infinity)>>

JoinKeys ==
  { <<Primary("publicKey", "A")>> \o Alice,
    <<Primary("publicKey", "A")>> \o Alice \o <<Sig(4, "cert_generic", "X", 1)>>,
    <<Primary("publicKey", "A")>> \o Alice
      \o <<Sig(4, "cert_generic", "X", 1), Sig(16, "cert_generic", "Y", 1)>>,
    <<Primary("publicKey", "A"), UserIdPacket("alice"), SelfCert(3, 0, 2, TRUE, Infinity),
      SelfCert(7, 0, 1, TRUE, Infinity), SelfCert(12, 0, 1, TRUE, Infinity)>>,
    <<Primary("publicKey", "A")>> \o Alice \o Bob,
    <<Primary("publicKey", "A")>> \o Alice \o Bob \o <<Sig(4, "cert_generic", "X", 1)>>,
    <<Primary("publicKey", "A")>> \o Alice
      \o <<SubkeyOf("publicKey", "S"), Binding(5, 1, TRUE),
           SubkeyOf("publicKey", "T"), Binding(14, 1, TRUE)>> }

JoinSigIds == 1..(3 * Cardinality(MergeBytes))

JoinInit ==
  /\ config = DefaultConfig
  /\ packetlist \in JoinKeys \X JoinKeys \X JoinKeys
  /\ LET r1 == Key([EmptyMem EXCEPT !.verified = AllFalse(JoinSigIds),
                                    !.revoked = AllFalse(JoinSigIds)],
                   1, Reidentify(packetlist[1], 1))
         r2 == Key(r1.m, 2, Reidentify(packetlist[2], 2))
         r3 == Key(r2.m, 3, Reidentify(packetlist[3], 3))
     IN /\ r1.error = "none" /\ r2.error = "none" /\ r3.error = "none"
        /\ keys = r3.m.keys /\ users = r3.m.users /\ subKeys = r3.m.subKeys
        /\ sigs = r3.m.sigs /\ verified = r3.m.verified /\ revoked = r3.m.revoked
  /\ now = MaxDate
  /\ last = [op |-> "Key", calls |-> 0]

\* key1.verifyKeyPackets(); `last` keeps the memory the call began with and
\* the record of the call before
VerifyKeyPacketsJoin ==
  /\ last.calls < MaxCalls
  /\ \E order \in {"index", "reverse"} :
       LET x == vkpCompleted(Mem, verifyKeyPackets(Mem, 1, NoKeyId, now),
                              1, NoKeyId, now, order)
       IN /\ SetMem(x.m)
          /\ last' = [op |-> "verifyKeyPackets", order |-> order, result |-> x.r,
                      mem |-> Mem, calls |-> last.calls + 1, prev |-> last]
          /\ UNCHANGED <<now, packetlist, config>>

\* key1.verifyAllUsers()
VerifyAllUsersJoin ==
  /\ last.calls < MaxCalls
  /\ \E order \in {"index", "reverse"} :
       LET x == verifyAllUsers(Mem, 1, now, order)
       IN /\ SetMem(x.m)
          /\ last' = [op |-> "verifyAllUsers", order |-> order, result |-> x.r,
                      error |-> x.error, mem |-> Mem, calls |-> last.calls + 1,
                      prev |-> last]
          /\ UNCHANGED <<now, packetlist, config>>

\* key1.update(key2) or key1.update(key3)
UpdateJoin ==
  /\ last.calls < MaxCalls
  /\ \E src \in JoinSlots \ {1}, order \in {"index", "reverse"} :
       LET x == update(Mem, 1, src, now, order)
       IN /\ SetMem(x.m)
          /\ last' = [op |-> "update", dst |-> 1, src |-> src, order |-> order,
                      result |-> x.r, mem |-> Mem, calls |-> last.calls + 1,
                      prev |-> last]
          /\ UNCHANGED <<now, packetlist, config>>

JoinNext == VerifyKeyPacketsJoin \/ VerifyAllUsersJoin \/ UpdateJoin

SpecJoin == JoinInit /\ [][JoinNext]_vars

\* the key packets of a key in declaration order
DeclaredPackets(c) ==
  <<c.primaryKey>> \o [i \in 1..Len(c.subKeys) |-> c.subKeys[i].subKey]

\* the elements of q that are in the sequence r, in the order of q
Restricted(q, r) == LET In(x) == x \in Range(r) IN SelectSeq(q, In)

\* the packets come out primary first, then subkeys in declaration order
PacketsInDeclarationOrder ==
  last.op = "verifyKeyPackets" =>
    last.result = Restricted(DeclaredPackets(Content(Mem, 1)), last.result)

\* the results come in the order of the users
ResultsInUserOrder ==
  (last.op = "verifyAllUsers" /\ last.error = "none") =>
    \A o \in {"index", "reverse"} : last.result = verifyAllUsers(last.mem, 1, now, o).r

\* the destination holds the same for every order
UpdateSameForEveryOrder ==
  last.op = "update" =>
    \A o \in {"index", "reverse"} :
      Content(Mem, 1) = Content(update(last.mem, 1, last.src, now, o).m, 1)

\* C28: deterministic join: the outcome of verifyKeyPackets, verifyAllUsers
\* and update, with the order of the returned packets or results and of what
\* is appended to the destination, is the same for every order in which the
\* signature verifications complete; the packets of verifyKeyPackets come out
\* primary first, then subkeys in declaration order.
C28_DeterministicJoin ==
  /\ PacketsInDeclarationOrder
  /\ ResultsInUserOrder
  /\ UpdateSameForEveryOrder

\* C29: update(src) never modifies src and leaves no mutable state shared
\* between the two keys: an update of the first key, the first one or a later
\* one, leaves the signature collections, users and subkeys of every other
\* key exactly as they were.
C29_OtherKeysUntouched ==
  last.op = "update" =>
    \A s \in JoinSlots \ {1} :
      /\ Content(Mem, s) = Content(last.mem, s)
      /\ last.prev.op = "update" => Content(Mem, s) = Content(last.prev.mem, s)

\* C30: update of a key from one with the same primary fingerprint raises no
\* error whatever mix of UserID users and UserAttribute users the two keys
\* carry: it ends normally, or with the fingerprint-mismatch or the
\* subkey-mismatch error, and in no other way.
C30_OnlyMismatchErrors ==
  last.op = "update" =>
    last.result \in {"ok", "ignored", "FingerprintMismatch", "SubkeyMismatch"}

====
